---- MODULE Spec2Model ----
(***************************************************************************)
(* AirShare: model of the TCP file-transfer protocol of                    *)
(* src-tauri/src/file_transfer.rs.                                         *)
(*                                                                         *)
(*   SpecRecv : start_file_server, one task per inbound connection, the    *)
(*              shared tables BATCH_RESPONSES / TRANSFER_RESPONSES /       *)
(*              TRANSFER_IPS, the settings and trust files, the user.      *)
(*   SpecSend : send_file_with_progress against an arbitrary peer.         *)
(*   SpecDisc : the presence registry of src-tauri/src/main.rs: the UDP    *)
(*              listener, the cleanup loop and the clock.                  *)
(*   SpecUdp  : the registry of out/production/AirShare/udp_discovery.rs   *)
(*              (DiscoveryManager), keyed by device id.                    *)
(*                                                                         *)
(* Sizes are in abstract byte units; the 64 KiB buffer is BufLen units.    *)
(***************************************************************************)
EXTENDS Integers, Naturals, Sequences, FiniteSets, TLC

\* ------------------------------------------------------------------ bounds
NConn == 2
MaxFileSize == 4
BufLen == 2
FolderTimeoutPolls == 1
TicksPerSec == 2
MaxTime == 8
UdpMaxTime == 41
MaxSaves == 103           \* calls of add_recent_transfer in SpecHist
NSavers == 2              \* commands saving a file at the same time
MaxRecents == 2           \* records in the history of SpecSave and SpecSaveSeq
NSendTasks == 2           \* send commands running at the same time
FilesPerBatch == 2
FileLen == 2              \* bytes of each file of a batch
MaxEtaBytes == 3          \* file sizes calculate_eta is tried on
MaxRetries == 3
NUpdaterCalls == 2
MaxChunks == 1           \* max_retries of the Downloader

\* ------------------------------------------------------- program constants
HeaderCap == 16 * 1024
AckCap == 8 * 1024
HEARTBEAT_INTERVAL_SECS == 2
DEVICE_TIMEOUT_SECS == 5
CleanupSleepSecs == 1
CLEANUP_INTERVAL_SECS == 10
TIMEOUT_SECONDS == 20
RecentsCap == 100         \* save_recent_transfer keeps this many records

\* ---------------------------------------------------------------- universes
Conns == 1..NConn
TidNames == <<"t1", "t2", "t3", "t4">>
Transfers == {TidNames[i] : i \in Conns}
Batches == {"b1"}
BatchKeys == Batches \cup Transfers
Ips == {"ip1", "ip2"}
Dirs == {"d1", "d2"}
NoDir == "none"
NoBatch == "nobatch"
NoIp == "noip"
\* the lists add_trusted_device_ip can have left in trusted_devices.json
TrustLists ==
    {l \in UNION {[1..n -> Ips] : n \in 0..Cardinality(Ips)} :
        \A i, k \in 1..Len(l) : l[i] = l[k] => i = k}

FileSizes == 0..MaxFileSize

VARIABLES
    conn,                \* per-connection task of start_file_server
    BATCH_RESPONSES,     \* batch key -> (accept, Option<dir>)
    TRANSFER_RESPONSES,  \* transfer id -> user's answer
    TRANSFER_IPS,        \* transfer id -> sender ip
    auto_accept_trusted, \* settings.json
    trusted_ips,         \* trusted_devices.json as read_trusted_ips returns it
    history,             \* recent_transfers.json, newest first
    snd,                 \* the task of send_file_with_progress
    devices,             \* SharedDevices: Vec<DeviceEntry>
    now,                 \* the clock (Instant::now), in ticks
    next_sweep,          \* when cleanup_loop wakes from its sleep
    local_ip,            \* what get_local_ip() returns at present
    own_ip,              \* the address this device advertises
    heard,               \* per address: the last heartbeat the listener took
    listener,            \* the task of udp_listener_loop
    beat,                \* a peer's udp_broadcast_heartbeat_loop
    udp,                 \* DiscoveryManager: its DeviceMap and cleanup timer
    saver,               \* the tasks of the commands that save a file
    tmp,                 \* per file: what is at its .json.tmp path
    kind,                \* per file: whether the bytes at its final path are whole
    RECENTS_LOCK,        \* the saver holding the history lock, 0 when free
    OVERALL_SENT,        \* the global counter of main.rs
    sending,             \* the tasks of the command send_file_with_progress
    sent_of,             \* per batch: the files started and the bytes written
    eta,                 \* a call of calculate_eta: its arguments and its result
    offer,               \* a call of should_offer_update: its arguments and its result
    update_state,        \* update_state.json as load_state returns it
    store_call,          \* the last call of a StorageManager operation
    unix_now,            \* the system time, in seconds since the epoch
    download,            \* a call of Downloader::download_file
    UPDATER_STATE,       \* the global UpdateState of commands.rs
    updater              \* the tasks of the updater's commands

vars == <<conn, BATCH_RESPONSES, TRANSFER_RESPONSES, TRANSFER_IPS,
          auto_accept_trusted, trusted_ips, history, snd,
          devices, now, next_sweep, local_ip, own_ip, heard, listener, beat, udp,
          saver, tmp, kind, RECENTS_LOCK, OVERALL_SENT, sending, sent_of, eta,
          offer, update_state, store_call, unix_now, download, UPDATER_STATE, updater>>

\* state of the discovery tasks
discVars == <<devices, now, next_sweep, local_ip, own_ip, heard, listener, beat, udp>>

\* state of the components a receiver step never touches
\* global state used by start_file_server
recvVars == <<conn, BATCH_RESPONSES, TRANSFER_RESPONSES, TRANSFER_IPS,
              auto_accept_trusted, trusted_ips>>

\* state of the saving commands below the values of the three files
saveVars == <<saver, tmp, kind, RECENTS_LOCK>>

\* state of the progress reports
batchVars == <<OVERALL_SENT, sending, sent_of, eta>>

\* state of the updater
updVars == <<offer, update_state, store_call, unix_now, download, UPDATER_STATE, updater>>

restVars == <<snd, discVars, saveVars, batchVars, updVars>>

\* ------------------------------------------------------------------ values
NoEntry == [present |-> FALSE, accept |-> FALSE, dir |-> NoDir]

Entry(a, d) == [present |-> TRUE, accept |-> a, dir |-> d]

NoResponse == [has |-> FALSE, val |-> FALSE]

Response(a) == [has |-> TRUE, val |-> a]

TransferRecord(t, s, n) == [type |-> t, status |-> s, file_size |-> n]

\* variant: the list is never truncated
save_recent_transfer_no_truncate(h, r) == <<r>> \o h

\* save_recent_transfer: insert at index 0, truncate to RecentsCap
save_recent_transfer(h, r) ==
    LET updated == <<r>> \o h
    IN  IF Len(updated) > RecentsCap THEN SubSeq(updated, 1, RecentsCap) ELSE updated

\* locals of one handling task, its socket and its destination file;
\* opens, stored, after_reject and prompt record what the task has done
InitConn ==
    [pc |-> "idle", ip |-> NoIp, hlen |-> 0, hnl |-> FALSE,
     tid |-> "t1", bid |-> "t1", size |-> 0,
     accept |-> FALSE, save_dir |-> NoDir, first |-> FALSE, auto |-> FALSE,
     auto_enabled |-> FALSE, prompt |-> "no",
     dialog |-> "none", cell |-> NoDir, polls |-> 0,
     ack |-> "none", file |-> FALSE, written |-> 0, received |-> 0, reads |-> 0,
     dest |-> NoDir, opens |-> FALSE, stored |-> FALSE, after_reject |-> FALSE,
     cancelled |-> FALSE, outcome |-> "none"]

\* variant: an operation on a closed socket may succeed
SocketOk_after_close(s, ok) == ok

\* an operation on the socket of task s succeeds only while the socket is open
SocketOk(s, ok) == ok /\ ~s.cancelled

\* the task returns: its locals are dropped
Finish(r, o) ==
    [r EXCEPT !.pc = "done", !.outcome = o, !.save_dir = NoDir, !.auto_enabled = FALSE,
              !.dialog = "none", !.cell = NoDir, !.polls = 0]

\* the header line as the peer sends it: len bytes, then a newline or EOF
HeaderLens == {1, HeaderCap, HeaderCap + 1}

HeaderContents == {"offer", "badutf8", "badjson"}

AllHeaders ==
    [len : HeaderLens, nl : BOOLEAN, content : HeaderContents,
     tid : Transfers, bid : Batches \cup {NoBatch}, size : FileSizes]

\* well-formed offers without a batch_id, each transfer with its own id: every
\* offer is a batch of its own
SoloOffers(c) ==
    [len : {1}, nl : {TRUE}, content : {"offer"},
     tid : {TidNames[c]}, bid : {NoBatch}, size : {1}]

\* well-formed offers of one batch, each transfer with its own Uuid::new_v4
BatchOffers(c) ==
    [len : {1}, nl : {TRUE}, content : {"offer"},
     tid : {TidNames[c]}, bid : Batches, size : {1}]

\* variant: the header loop without its size limit
ReadHeaderLine_no_cap(len, nl, content) ==
    IF ~nl THEN "eof"
    ELSE content

\* the byte-by-byte header loop: what it ends with
ReadHeaderLine(len, nl, content) ==
    IF len > HeaderCap THEN "toolarge"
    ELSE IF ~nl THEN "eof"
    ELSE content

\* let batch_id = offer.batch_id.unwrap_or(offer.transfer_id)
BatchKeyOf(tid, bid) == IF bid = NoBatch THEN tid ELSE bid

\* variant: one error text for every bad header
HeaderNack_generic(k) ==
    IF k \in {"toolarge", "badutf8", "badjson"} THEN "rejected" ELSE "none"

HeaderNack(k) ==
    CASE k = "toolarge" -> "header too large or missing newline"
      [] k = "badutf8" -> "invalid utf8 in header"
      [] k = "badjson" -> "invalid json"
      [] OTHER -> "none"

\* a user rejection has been stored for batch key k and answered to its sender
Rejected(k) ==
    \E d \in Conns : /\ conn[d].bid = k
                      /\ conn[d].stored
                      /\ ~conn[d].accept
                      /\ conn[d].ack = "user_rejected"

\* ---------------------------------------------------------------- receiver
Set(c, r) == conn' = [conn EXCEPT ![c] = r]

\* listener.accept() and tokio::spawn of the handling task
AcceptConnection(c, ips) ==
    /\ conn[c].pc = "idle"
    /\ \A d \in Conns : d < c => conn[d].pc # "idle"
    /\ \E ip \in ips :
         Set(c, [conn[c] EXCEPT !.pc = "header", !.ip = ip])
    /\ UNCHANGED <<BATCH_RESPONSES, TRANSFER_RESPONSES, TRANSFER_IPS,
                   auto_accept_trusted, trusted_ips, history, restVars>>

\* header loop, utf8 check, FileOffer parse, TRANSFER_IPS insert; hlen and hnl
\* are the header bytes the peer sent and whether a newline followed them
ReadHeader(c, headers) ==
    /\ conn[c].pc = "header"
    /\ \E h \in headers, wok \in BOOLEAN :
         LET k == ReadHeaderLine(h.len, h.nl, h.content)
             key == BatchKeyOf(h.tid, h.bid)
             r == [conn[c] EXCEPT !.hlen = h.len, !.hnl = h.nl]
         IN IF k = "offer"
            THEN /\ Set(c, [r EXCEPT !.pc = "lookup", !.tid = h.tid, !.bid = key,
                                     !.size = h.size, !.after_reject = Rejected(key)])
                 /\ TRANSFER_IPS' = [TRANSFER_IPS EXCEPT ![h.tid] = conn[c].ip]
            ELSE /\ Set(c, Finish([r EXCEPT
                               !.ack = IF k # "eof" /\ wok THEN HeaderNack(k) ELSE "none"], k))
                 /\ UNCHANGED TRANSFER_IPS
    /\ UNCHANGED <<BATCH_RESPONSES, TRANSFER_RESPONSES,
                   auto_accept_trusted, trusted_ips, history, restVars>>

\* "Check if we already have a batch response"
BatchLookup(c) ==
    /\ conn[c].pc = "lookup"
    /\ LET e == BATCH_RESPONSES[conn[c].bid]
       IN IF e.present
          THEN Set(c, [conn[c] EXCEPT !.pc = "ack", !.accept = e.accept,
                                      !.save_dir = e.dir, !.first = FALSE])
          ELSE Set(c, [conn[c] EXCEPT !.pc = "settings", !.accept = FALSE,
                                      !.save_dir = NoDir, !.first = TRUE])
    /\ UNCHANGED <<BATCH_RESPONSES, TRANSFER_RESPONSES, TRANSFER_IPS,
                   auto_accept_trusted, trusted_ips, history, restVars>>

\* read_settings().await.auto_accept_trusted
ReadSettings(c) ==
    /\ conn[c].pc = "settings"
    /\ Set(c, [conn[c] EXCEPT !.pc = "trusted", !.auto_enabled = auto_accept_trusted])
    /\ UNCHANGED <<BATCH_RESPONSES, TRANSFER_RESPONSES, TRANSFER_IPS,
                   auto_accept_trusted, trusted_ips, history, restVars>>

should_auto_accept(auto_enabled, trusted, ip) ==
    auto_enabled /\ \E i \in 1..Len(trusted) : trusted[i] = ip

\* no other connection of c's batch has got as far as the trust test
OpensBatch(c) ==
    \A d \in Conns \ {c} :
        conn[d].bid = conn[c].bid =>
            conn[d].pc \in {"idle", "header", "lookup", "settings", "trusted"}

\* read_trusted_ips(), then either the auto-accept branch up to the folder
\* dialog or the prompt branch up to the transfer_request event
ReadTrusted(c) ==
    /\ conn[c].pc = "trusted"
    /\ IF should_auto_accept(conn[c].auto_enabled, trusted_ips, conn[c].ip)
       THEN Set(c, [conn[c] EXCEPT !.pc = "auto_wait", !.accept = TRUE, !.auto = TRUE,
                                   !.dialog = "open", !.cell = NoDir, !.polls = 0,
                                   !.opens = OpensBatch(c)])
       ELSE Set(c, [conn[c] EXCEPT !.pc = "wait_response", !.prompt = "shown",
                                   !.opens = OpensBatch(c)])
    /\ UNCHANGED <<BATCH_RESPONSES, TRANSFER_RESPONSES, TRANSFER_IPS,
                   auto_accept_trusted, trusted_ips, history, restVars>>

\* variant: the timeout stores a rejection for the batch
AutoPoll_stores(c) ==
    /\ conn[c].pc = "auto_wait"
    /\ IF conn[c].polls > FolderTimeoutPolls
       THEN /\ \E wok \in BOOLEAN :
                 Set(c, Finish([conn[c] EXCEPT
                           !.ack = IF SocketOk(conn[c], wok) THEN "timeout_folder_selection"
                                   ELSE "none"],
                        "timeout_folder_selection"))
            /\ BATCH_RESPONSES' = [BATCH_RESPONSES EXCEPT ![conn[c].bid] = Entry(FALSE, NoDir)]
       ELSE /\ IF conn[c].cell # NoDir
               THEN Set(c, [conn[c] EXCEPT !.pc = "auto_insert", !.save_dir = conn[c].cell])
               ELSE Set(c, [conn[c] EXCEPT !.polls = @ + 1])
            /\ UNCHANGED BATCH_RESPONSES
    /\ UNCHANGED <<TRANSFER_RESPONSES, TRANSFER_IPS,
                   auto_accept_trusted, trusted_ips, history, restVars>>

\* one iteration of the "Wait for folder selection with timeout" loop; the
\* loop is left with a folder only, so the is_none() test after it never fires
AutoPoll(c) ==
    /\ conn[c].pc = "auto_wait"
    /\ IF conn[c].polls > FolderTimeoutPolls
       THEN \E wok \in BOOLEAN :
              Set(c, Finish([conn[c] EXCEPT
                        !.ack = IF SocketOk(conn[c], wok) THEN "timeout_folder_selection"
                                ELSE "none"],
                     "timeout_folder_selection"))
       ELSE IF conn[c].cell # NoDir
       THEN Set(c, [conn[c] EXCEPT !.pc = "auto_insert", !.save_dir = conn[c].cell])
       ELSE Set(c, [conn[c] EXCEPT !.polls = @ + 1])
    /\ UNCHANGED <<BATCH_RESPONSES, TRANSFER_RESPONSES, TRANSFER_IPS,
                   auto_accept_trusted, trusted_ips, history, restVars>>

\* "Save to BATCH_RESPONSES" of either branch
BatchInsert(c) ==
    /\ conn[c].pc \in {"auto_insert", "insert"}
    /\ BATCH_RESPONSES' = [BATCH_RESPONSES EXCEPT
                             ![conn[c].bid] = Entry(conn[c].accept, conn[c].save_dir)]
    /\ Set(c, [conn[c] EXCEPT !.pc = "ack", !.stored = TRUE])
    /\ UNCHANGED <<TRANSFER_RESPONSES, TRANSFER_IPS,
                   auto_accept_trusted, trusted_ips, history, restVars>>

\* variant: the answer to any transfer id is taken
PollResponse_any_id(c) ==
    /\ conn[c].pc = "wait_response"
    /\ \E t \in Transfers :
         /\ TRANSFER_RESPONSES[t].has
         /\ Set(c, [conn[c] EXCEPT !.pc = "remove_response",
                                   !.accept = TRANSFER_RESPONSES[t].val])
    /\ UNCHANGED <<BATCH_RESPONSES, TRANSFER_RESPONSES, TRANSFER_IPS,
                   auto_accept_trusted, trusted_ips, history, restVars>>

\* "Wait for user response": the iteration that finds the answer
PollResponse(c) ==
    /\ conn[c].pc = "wait_response"
    /\ TRANSFER_RESPONSES[conn[c].tid].has
    /\ Set(c, [conn[c] EXCEPT !.pc = "remove_response",
                              !.accept = TRANSFER_RESPONSES[conn[c].tid].val])
    /\ UNCHANGED <<BATCH_RESPONSES, TRANSFER_RESPONSES, TRANSFER_IPS,
                   auto_accept_trusted, trusted_ips, history, restVars>>

\* "Remove transfer_id from TRANSFER_RESPONSES", then the folder dialog if accepted
RemoveResponse(c) ==
    /\ conn[c].pc = "remove_response"
    /\ TRANSFER_RESPONSES' = [TRANSFER_RESPONSES EXCEPT ![conn[c].tid] = NoResponse]
    /\ IF conn[c].accept
       THEN Set(c, [conn[c] EXCEPT !.pc = "folder_wait", !.dialog = "open", !.cell = NoDir])
       ELSE Set(c, [conn[c] EXCEPT !.pc = "insert"])
    /\ UNCHANGED <<BATCH_RESPONSES, TRANSFER_IPS,
                   auto_accept_trusted, trusted_ips, history, restVars>>

\* the folder loop of the prompt branch: the iteration that finds a folder
FolderPoll(c) ==
    /\ conn[c].pc = "folder_wait"
    /\ conn[c].cell # NoDir
    /\ Set(c, [conn[c] EXCEPT !.pc = "insert", !.save_dir = conn[c].cell])
    /\ UNCHANGED <<BATCH_RESPONSES, TRANSFER_RESPONSES, TRANSFER_IPS,
                   auto_accept_trusted, trusted_ips, history, restVars>>

\* variant: the failed ack write does not return
WriteAck_no_return(c) ==
    /\ conn[c].pc = "ack"
    /\ \E wok \in BOOLEAN :
         IF SocketOk(conn[c], wok)
         THEN /\ Set(c, [conn[c] EXCEPT
                           !.ack = IF conn[c].accept THEN "accept" ELSE "user_rejected",
                           !.pc = IF conn[c].accept THEN "reread" ELSE "reject_cleanup"])
              /\ UNCHANGED BATCH_RESPONSES
         ELSE /\ Set(c, [conn[c] EXCEPT !.pc = IF conn[c].accept THEN "reread"
                                                     ELSE "reject_cleanup"])
              /\ BATCH_RESPONSES' = IF conn[c].first
                                    THEN [BATCH_RESPONSES EXCEPT ![conn[c].bid] = NoEntry]
                                    ELSE BATCH_RESPONSES
    /\ UNCHANGED <<TRANSFER_RESPONSES, TRANSFER_IPS, auto_accept_trusted, trusted_ips,
                   history, restVars>>

\* "Send ack JSON"; a failed write drops the batch entry "if we just created it"
WriteAck(c) ==
    /\ conn[c].pc = "ack"
    /\ \E wok \in BOOLEAN :
         IF SocketOk(conn[c], wok)
         THEN /\ Set(c, [conn[c] EXCEPT
                           !.ack = IF conn[c].accept THEN "accept" ELSE "user_rejected",
                           !.pc = IF conn[c].accept THEN "reread" ELSE "reject_cleanup"])
              /\ UNCHANGED BATCH_RESPONSES
         ELSE /\ Set(c, Finish(conn[c], "ack_write_failed"))
              /\ BATCH_RESPONSES' = IF conn[c].first
                                    THEN [BATCH_RESPONSES EXCEPT ![conn[c].bid] = NoEntry]
                                    ELSE BATCH_RESPONSES
    /\ UNCHANGED <<TRANSFER_RESPONSES, TRANSFER_IPS, auto_accept_trusted, trusted_ips,
                   history, restVars>>

\* "On reject / On cancel, cleanup batch entry if we just created it"
Cleanup(c) ==
    /\ conn[c].pc \in {"reject_cleanup", "cancel_cleanup"}
    /\ BATCH_RESPONSES' = IF conn[c].first
                          THEN [BATCH_RESPONSES EXCEPT ![conn[c].bid] = NoEntry]
                          ELSE BATCH_RESPONSES
    /\ Set(c, Finish(conn[c], IF conn[c].pc = "reject_cleanup" THEN "rejected"
                              ELSE "user_cancelled"))
    /\ UNCHANGED <<TRANSFER_RESPONSES, TRANSFER_IPS, auto_accept_trusted, trusted_ips,
                   history, restVars>>

\* "Retrieve save_dir from batch map (in case not first)"
ReReadDir(c) ==
    /\ conn[c].pc = "reread"
    /\ LET e == BATCH_RESPONSES[conn[c].bid]
           d == IF e.present THEN e.dir ELSE NoDir
       IN IF d = NoDir
          THEN Set(c, [conn[c] EXCEPT !.pc = "cancel_cleanup"])
          ELSE Set(c, [conn[c] EXCEPT !.pc = "create", !.dest = d])
    /\ UNCHANGED <<BATCH_RESPONSES, TRANSFER_RESPONSES, TRANSFER_IPS,
                   auto_accept_trusted, trusted_ips, history, restVars>>

\* create_dir_all and File::create
CreateDest(c) ==
    /\ conn[c].pc = "create"
    /\ \E r \in {"ok", "dir_failed", "file_failed"} :
         /\ Set(c, IF r = "ok"
                   THEN [conn[c] EXCEPT !.pc = "recv", !.file = TRUE, !.written = 0,
                                        !.received = 0]
                   ELSE Finish(conn[c], r))
         /\ BATCH_RESPONSES' = IF r = "dir_failed" /\ conn[c].first
                               THEN [BATCH_RESPONSES EXCEPT ![conn[c].bid] = NoEntry]
                               ELSE BATCH_RESPONSES
    /\ UNCHANGED <<TRANSFER_RESPONSES, TRANSFER_IPS, auto_accept_trusted, trusted_ips,
                   history, restVars>>

Min(a, b) == IF a < b THEN a ELSE b

\* variant: the read is not clamped to the bytes still expected
to_read_unclamped(size, received) == BufLen

\* let to_read = min(buffer.len(), offer.file_size - received)
to_read(size, received) == Min(BufLen, size - received)

\* one iteration of "while received < offer.file_size": socket.read into
\* buffer[..to_read] yields 1..to_read bytes, 0 (peer closed) or an error;
\* reads counts the reads that returned bytes
RecvChunk(c) ==
    /\ conn[c].pc = "recv"
    /\ conn[c].received < conn[c].size
    /\ \/ \E n \in 1..to_read(conn[c].size, conn[c].received), fok \in BOOLEAN :
            /\ SocketOk(conn[c], TRUE)
            /\ Set(c, IF fok
                      THEN [conn[c] EXCEPT !.written = @ + n, !.received = @ + n,
                                           !.reads = @ + 1]
                      ELSE Finish(conn[c], "file_write_error"))
       \/ \E r \in {"closed_early", "read_error"} : Set(c, Finish(conn[c], r))
    /\ UNCHANGED <<BATCH_RESPONSES, TRANSFER_RESPONSES, TRANSFER_IPS,
                   auto_accept_trusted, trusted_ips, history, restVars>>

\* loop exit: sync_all, transfer_complete, add_recent_transfer(Received, Completed)
Complete(c) ==
    /\ conn[c].pc = "recv"
    /\ ~(conn[c].received < conn[c].size)
    /\ Set(c, Finish(conn[c], "complete"))
    /\ history' = save_recent_transfer(history,
                      TransferRecord("received", "completed", conn[c].size))
    /\ UNCHANGED <<BATCH_RESPONSES, TRANSFER_RESPONSES, TRANSFER_IPS,
                   auto_accept_trusted, trusted_ips, restVars>>

\* ------------------------------------------------------------------ the user
\* variant: the address is pushed without looking for it
add_trusted_device_ip_push(list, ip) == Append(list, ip)

\* trusted list after add_trusted_device_ip(ip)
add_trusted_device_ip(list, ip) ==
    IF \E i \in 1..Len(list) : list[i] = ip THEN list ELSE Append(list, ip)

\* list.retain(|x| x != &ip)
retain_other(list, ip) == SelectSeq(list, LAMBDA x : x # ip)

\* variant: the sender is trusted whenever the offer is accepted
respond_transfer_always_trust(c, a, trust) ==
    /\ conn[c].prompt = "shown"
    /\ Set(c, [conn[c] EXCEPT !.prompt = IF a /\ trust THEN "answered_trust"
                                        ELSE IF a THEN "answered_accept" ELSE "answered"])
    /\ TRANSFER_RESPONSES' = [TRANSFER_RESPONSES EXCEPT ![conn[c].tid] = Response(a)]
    /\ trusted_ips' = IF a /\ TRANSFER_IPS[conn[c].tid] # NoIp
                      THEN add_trusted_device_ip(trusted_ips, TRANSFER_IPS[conn[c].tid])
                      ELSE trusted_ips
    /\ UNCHANGED <<BATCH_RESPONSES, TRANSFER_IPS, auto_accept_trusted, history, restVars>>

\* respond_transfer, called by the frontend for the transfer_request of
\* connection c; prompt keeps whether the call accepted, and whether with
\* trust Some(true)
respond_transfer(c, a, trust) ==
    /\ conn[c].prompt = "shown"
    /\ Set(c, [conn[c] EXCEPT !.prompt = IF a /\ trust THEN "answered_trust"
                                        ELSE IF a THEN "answered_accept" ELSE "answered"])
    /\ TRANSFER_RESPONSES' = [TRANSFER_RESPONSES EXCEPT ![conn[c].tid] = Response(a)]
    /\ trusted_ips' = IF a /\ trust /\ TRANSFER_IPS[conn[c].tid] # NoIp
                      THEN add_trusted_device_ip(trusted_ips, TRANSFER_IPS[conn[c].tid])
                      ELSE trusted_ips
    /\ UNCHANGED <<BATCH_RESPONSES, TRANSFER_IPS, auto_accept_trusted, history, restVars>>

\* the pick_folder callback: a folder, or NoDir when the dialog is dismissed
PickFolder(c) ==
    /\ conn[c].dialog = "open"
    /\ \E path \in Dirs \cup {NoDir} :
         Set(c, [conn[c] EXCEPT !.dialog = "closed", !.cell = path])
    /\ UNCHANGED <<BATCH_RESPONSES, TRANSFER_RESPONSES, TRANSFER_IPS,
                   auto_accept_trusted, trusted_ips, history, restVars>>

set_auto_accept_trusted(v) ==
    /\ auto_accept_trusted # v
    /\ auto_accept_trusted' = v
    /\ UNCHANGED <<conn, BATCH_RESPONSES, TRANSFER_RESPONSES, TRANSFER_IPS, trusted_ips,
                   history, restVars>>

remove_trusted_device_ip(ip) ==
    /\ \E i \in 1..Len(trusted_ips) : trusted_ips[i] = ip
    /\ trusted_ips' = retain_other(trusted_ips, ip)
    /\ UNCHANGED <<conn, BATCH_RESPONSES, TRANSFER_RESPONSES, TRANSFER_IPS,
                   auto_accept_trusted, history, restVars>>

\* ------------------------------------------------------------------ sender

\* locals of send_file_with_progress, the bytes it has put on the socket
\* (hdr, body) and the source file's length when it is read (flen)
InitSnd ==
    [pc |-> "metadata", file_size |-> 0, flen |-> 0, sent |-> 0,
     hdr |-> FALSE, alen |-> 0, ack |-> "none", body |-> 0, cancelled |-> FALSE,
     result |-> "none"]

\* the ack line as the peer sends it: len bytes, then a newline or EOF
AckLens == {1, AckCap, AckCap + 1}

AckContents ==
    {"accept_true", "accept_false", "no_accept", "accept_not_bool", "badjson", "badutf8"}

\* variant: the ack loop without its size limit
ReadAckLine_no_cap(len, nl, content) ==
    IF ~nl THEN "eof"
    ELSE content

\* the byte-by-byte ack loop, from_utf8 and from_str: what they end with
ReadAckLine(len, nl, content) ==
    IF len > AckCap THEN "toolarge"
    ELSE IF ~nl THEN "eof"
    ELSE content

\* variant: unwrap_or(true)
ack_accepted_default_true(content) == content # "accept_false"

\* ack_json.get("accept").and_then(|v| v.as_bool()).unwrap_or(false)
ack_accepted(content) == content = "accept_true"

\* add_recent_transfer(.., TransferType::Sent, .., status)
RecordSent(status) ==
    history' = save_recent_transfer(history, TransferRecord("sent", status, snd.file_size))

Return(r, res) == [r EXCEPT !.pc = "done", !.result = res]

\* fs::metadata(&path).await?
Metadata ==
    /\ snd.pc = "metadata"
    /\ \/ \E n \in FileSizes : snd' = [snd EXCEPT !.pc = "connect", !.file_size = n]
       \/ snd' = Return(snd, "err_metadata")
    /\ UNCHANGED <<recvVars, saveVars, batchVars, updVars, discVars, history>>

\* TcpStream::connect
Connect ==
    /\ snd.pc = "connect"
    /\ \/ /\ snd' = [snd EXCEPT !.pc = "header"]
          /\ UNCHANGED history
       \/ /\ snd' = Return(snd, "err_connect")
          /\ RecordSent("failed")
    /\ UNCHANGED <<recvVars, saveVars, batchVars, updVars, discVars>>

\* stream.write_all(header_line)
WriteHeader ==
    /\ snd.pc = "header"
    /\ \/ /\ SocketOk(snd, TRUE)
          /\ snd' = [snd EXCEPT !.pc = "ack", !.hdr = TRUE]
          /\ UNCHANGED history
       \/ /\ snd' = Return(snd, "err_header")
          /\ RecordSent("failed")
    /\ UNCHANGED <<recvVars, saveVars, batchVars, updVars, discVars>>

\* variant: a rejection is recorded as a failure
RejectAck_failed(r) ==
    /\ snd' = Return(r, "rejected")
    /\ RecordSent("failed")

\* "if !accepted": history record Cancelled, bail "Transfer rejected by peer"
RejectAck(r) ==
    /\ snd' = Return(r, "rejected")
    /\ RecordSent("cancelled")

\* "Await ack line strictly before sending any binary", parse, accept test;
\* alen is the number of ack bytes the peer sent before the newline or EOF
ReadAck ==
    /\ snd.pc = "ack"
    /\ \E len \in AckLens, nl \in BOOLEAN, content \in AckContents :
         LET k == IF SocketOk(snd, TRUE) THEN ReadAckLine(len, nl, content) ELSE "eof"
             r == [snd EXCEPT !.alen = IF SocketOk(snd, TRUE) THEN len ELSE 0]
         IN
         CASE k = "eof" ->
                /\ snd' = Return(r, "err_ack_read")
                /\ RecordSent("failed")
           [] k \in {"toolarge", "badutf8", "badjson"} ->
                /\ snd' = Return([r EXCEPT !.ack = k], "err_ack_" \o k)
                /\ UNCHANGED history
           [] OTHER ->
                IF ack_accepted(k)
                THEN /\ snd' = [r EXCEPT !.pc = "open", !.ack = k]
                     /\ UNCHANGED history
                ELSE RejectAck([r EXCEPT !.ack = k])
    /\ UNCHANGED <<recvVars, saveVars, batchVars, updVars, discVars>>

\* fs::File::open; the file holds flen bytes when it is read
OpenFile ==
    /\ snd.pc = "open"
    /\ \/ /\ \E n \in FileSizes : snd' = [snd EXCEPT !.pc = "body", !.flen = n, !.sent = 0]
          /\ UNCHANGED history
       \/ /\ snd' = Return(snd, "err_open")
          /\ RecordSent("failed")
    /\ UNCHANGED <<recvVars, saveVars, batchVars, updVars, discVars>>

\* one iteration of "while sent < file_size"; a read of 0 bytes leaves the loop,
\* a failed write_all may have put a part of the chunk on the socket
SendChunk ==
    /\ snd.pc = "body"
    /\ snd.sent < snd.file_size
    /\ \/ /\ snd.flen > snd.sent
          /\ \E n \in 1..Min(to_read(snd.file_size, snd.sent), snd.flen - snd.sent) :
               \/ /\ SocketOk(snd, TRUE)
                  /\ snd' = [snd EXCEPT !.sent = @ + n, !.body = @ + n]
                  /\ UNCHANGED history
               \/ /\ \E k \in 0..(n - 1) :
                       /\ k = 0 \/ SocketOk(snd, TRUE)
                       /\ snd' = Return([snd EXCEPT !.body = @ + k], "err_write")
                  /\ RecordSent("failed")
       \/ /\ snd.flen <= snd.sent
          /\ snd' = [snd EXCEPT !.pc = "finish"]
          /\ UNCHANGED history
       \/ /\ snd' = Return(snd, "err_read")
          /\ RecordSent("failed")
    /\ UNCHANGED <<recvVars, saveVars, batchVars, updVars, discVars>>

\* flush, shutdown, transfer_complete, add_recent_transfer(Sent, Completed), Ok(())
FinishSend ==
    /\ \/ snd.pc = "finish"
       \/ snd.pc = "body" /\ ~(snd.sent < snd.file_size)
    /\ snd' = Return(snd, "ok")
    /\ RecordSent("completed")
    /\ UNCHANGED <<recvVars, saveVars, batchVars, updVars, discVars>>

\* --------------------------------------------------------------- discovery
\* addresses: a1 is this device's interface address, a2 a peer's, and
\* 0.0.0.0 what the heartbeat carries when get_local_ip() gave None
Unspecified == "0.0.0.0"

LocalAddr == "a1"

PeerAddr == "a2"

Addrs == {LocalAddr, PeerAddr, Unspecified}

Versions == {"v1", "v2"}

\* the Device a heartbeat of version v from address a decodes to
DeviceOf(a, v) ==
    IF v = "v1"
    THEN [name |-> "n1", ip |-> a, port |-> 40123, status |-> "Online",
          last_seen |-> "s1", mac |-> "none"]
    ELSE [name |-> "n2", ip |-> a, port |-> 40124, status |-> "Away",
          last_seen |-> "s2", mac |-> "m1"]

\* datagrams on the broadcast port: heartbeats, and bytes that do not decode
Heartbeats == [kind : {"heartbeat"}, ip : Addrs, v : Versions]

Datagrams == Heartbeats \cup {[kind |-> "junk", ip |-> NoIp, v |-> "v1"]}

\* what arrives on the broadcast port: the peer's heartbeats, this device's
\* own broadcast (one content, the address it advertises) and junk
OnAir ==
    {d \in Datagrams : \/ d.kind = "junk"
                       \/ d.ip = PeerAddr
                       \/ d.ip = own_ip /\ d.v = "v1"}

NotHeard == [at |-> -1, v |-> "none"]

DeviceEntry(dev, t) == [device |-> dev, last_seen_instant |-> t]

\* Duration::as_secs: whole seconds, the fraction dropped
as_secs(d) == d \div TicksPerSec

Index(devs, a) == {i \in 1..Len(devs) : devs[i].device.ip = a}

\* variant: every heartbeat is pushed
Upsert_push(devs, dev, t) == Append(devs, DeviceEntry(dev, t))

\* devs.iter_mut().find(|d| d.device.ip == dev.ip): replace, else push
Upsert(devs, dev, t) ==
    IF Index(devs, dev.ip) # {}
    THEN LET i == CHOOSE i \in Index(devs, dev.ip) :
                      \A j \in Index(devs, dev.ip) : i <= j
         IN [devs EXCEPT ![i] = DeviceEntry(dev, t)]
    ELSE Append(devs, DeviceEntry(dev, t))

\* variant: nothing is ever evicted
Retained_always(e, t) == TRUE

\* variant: an entry is kept for two heartbeat intervals
Retained_two_intervals(e, t) ==
    as_secs(t - e.last_seen_instant) < 2 * HEARTBEAT_INTERVAL_SECS

\* the retain predicate of cleanup_loop
Retained(e, t) == as_secs(t - e.last_seen_instant) < DEVICE_TIMEOUT_SECS

\* get_devices: the snapshot
get_devices == [i \in 1..Len(devices) |-> devices[i].device]

\* the ip field of the heartbeat udp_broadcast_heartbeat_loop builds at start
Advertised(l) == IF l = NoIp THEN Unspecified ELSE l

\* a listening task: alive while its loop runs, the kind of the last
\* datagram, and whether a datagram was dropped as malformed
InitListener == [alive |-> TRUE, last |-> "none", dropped |-> FALSE]

\* variant: the loop ends on a datagram that does not decode
Malformed_return(l) == [l EXCEPT !.alive = FALSE, !.last = "junk", !.dropped = TRUE]

\* the datagram does not decode: warn!, continue
Malformed(l) == [l EXCEPT !.last = "junk", !.dropped = TRUE]

\* the datagram decoded as a Device
Decoded(l) == [l EXCEPT !.last = "heartbeat"]

\* the body of udp_listener_loop for the datagram d that recv_from returned
Receive(d) ==
    IF d.kind # "heartbeat"
    THEN /\ listener' = Malformed(listener)
         /\ UNCHANGED <<devices, heard>>
    ELSE /\ listener' = Decoded(listener)
         /\ IF local_ip # NoIp /\ d.ip = local_ip
            THEN UNCHANGED <<devices, heard>>
            ELSE /\ devices' = Upsert(devices, DeviceOf(d.ip, d.v), now)
                 /\ heard' = [heard EXCEPT ![d.ip] = [at |-> now, v |-> d.v]]

\* one iteration of udp_listener_loop
Listen(dgrams) ==
    /\ listener.alive
    /\ \E d \in dgrams : Receive(d)
    /\ UNCHANGED <<now, next_sweep, local_ip, own_ip, udp, beat, recvVars, saveVars, batchVars, updVars, history, snd>>

\* a peer's heartbeat loop: when it sends next, whether its last datagram was
\* lost on the way and whether one has arrived
InitBeat == [next |-> 0, lost |-> FALSE, arrived |-> FALSE]

\* one iteration of the peer's udp_broadcast_heartbeat_loop: send_to, then
\* sleep; the datagram reaches the listener or is lost, never two in a row
Heartbeat ==
    /\ now = beat.next
    /\ listener.alive
    /\ \/ /\ \E v \in Versions : Receive([kind |-> "heartbeat", ip |-> PeerAddr, v |-> v])
          /\ beat' = [next |-> now + HEARTBEAT_INTERVAL_SECS * TicksPerSec,
                      lost |-> FALSE, arrived |-> TRUE]
       \/ /\ ~beat.lost
          /\ beat' = [beat EXCEPT !.next = now + HEARTBEAT_INTERVAL_SECS * TicksPerSec,
                                  !.lost = TRUE]
          /\ UNCHANGED <<devices, heard, listener>>
    /\ UNCHANGED <<now, next_sweep, local_ip, own_ip, udp, recvVars, saveVars, batchVars,
                   updVars, history, snd>>

\* time passes, but neither past the moment cleanup_loop wakes nor past the
\* peer's next heartbeat
BeatTick ==
    /\ now < MaxTime * TicksPerSec
    /\ now < next_sweep
    /\ now < beat.next
    /\ now' = now + 1
    /\ UNCHANGED <<devices, next_sweep, local_ip, own_ip, heard, listener, beat, udp,
                   recvVars, saveVars, batchVars, updVars, history, snd>>

\* one iteration of cleanup_loop: retain, then sleep
Sweep ==
    /\ now = next_sweep
    /\ devices' = SelectSeq(devices, LAMBDA e : Retained(e, now))
    /\ next_sweep' = now + CleanupSleepSecs * TicksPerSec
    /\ UNCHANGED <<now, local_ip, own_ip, heard, listener, udp, beat, recvVars, saveVars, batchVars, updVars, history, snd>>

\* time passes, but not past the moment cleanup_loop wakes
Tick ==
    /\ now < MaxTime * TicksPerSec
    /\ now < next_sweep
    /\ now' = now + 1
    /\ UNCHANGED <<devices, next_sweep, local_ip, own_ip, heard, listener, udp,
                   beat, recvVars, saveVars, batchVars, updVars, history, snd>>

\* an interface comes up or goes down
NetChange ==
    /\ local_ip' = IF local_ip = NoIp THEN LocalAddr ELSE NoIp
    /\ UNCHANGED <<devices, now, next_sweep, own_ip, heard, listener, udp,
                   beat, recvVars, saveVars, batchVars, updVars, history, snd>>

\* ------------------------------------------- discovery (udp_discovery.rs)
DeviceIds == {"id1"}

NoDevice == [present |-> FALSE, name |-> "none", ip |-> NoIp, last_seen |-> 0]

\* the clock is the system time here: whole seconds since the epoch
current_timestamp == as_secs(now)

\* variant: every entry is kept
udp_retained_always(dev, t) == TRUE

\* the retain predicate of cleanup_loop
udp_retained(dev, t) == t - dev.last_seen <= TIMEOUT_SECONDS

InitUdpIdle ==
    [devices |-> [i \in DeviceIds |-> NoDevice], next_sweep |-> 0,
     heard |-> [i \in DeviceIds |-> -1],
     alive |-> TRUE, last |-> "none", dropped |-> FALSE]

\* get_active_devices: the values of the map
get_active_devices == {udp.devices[i] : i \in {j \in DeviceIds : udp.devices[j].present}}

\* one iteration of listen_loop: ip and last_seen are overwritten, the device
\* is inserted under its id; heard keeps the moment of receipt
listen_loop ==
    /\ udp.alive
    /\ \E ok \in BOOLEAN, i \in DeviceIds, n \in {"n1", "n2"}, src \in {"a2", "a3"} :
         IF ok
         THEN udp' = [Decoded(udp) EXCEPT
                        !.devices[i] = [present |-> TRUE, name |-> n, ip |-> src,
                                        last_seen |-> current_timestamp],
                        !.heard[i] = now]
         ELSE udp' = Malformed(udp)
    /\ UNCHANGED <<devices, now, next_sweep, local_ip, own_ip, heard, listener,
                   beat, recvVars, saveVars, batchVars, updVars, history, snd>>

\* one tick of the cleanup interval
udp_cleanup_loop ==
    /\ now = udp.next_sweep
    /\ udp' = [udp EXCEPT
                 !.devices = [i \in DeviceIds |->
                                IF udp.devices[i].present
                                   /\ udp_retained(udp.devices[i], current_timestamp)
                                THEN udp.devices[i] ELSE NoDevice],
                 !.next_sweep = now + CLEANUP_INTERVAL_SECS * TicksPerSec]
    /\ UNCHANGED <<devices, now, next_sweep, local_ip, own_ip, heard, listener,
                   beat, recvVars, saveVars, batchVars, updVars, history, snd>>

\* time passes, but not past the next tick of the cleanup interval
UdpTick ==
    /\ now < UdpMaxTime * TicksPerSec
    /\ now < udp.next_sweep
    /\ now' = now + 1
    /\ UNCHANGED <<devices, next_sweep, local_ip, own_ip, heard, listener, udp,
                   beat, recvVars, saveVars, batchVars, updVars, history, snd>>

\* ------------------------------------------------------------ saved files
\* settings.json, trusted_devices.json and recent_transfers.json. The variables
\* auto_accept_trusted, trusted_ips and history hold what a read of the final
\* path returns: the stored value when the bytes are whole, the default when
\* they do not parse.
Savers == 1..NSavers

Files == {"settings", "trusted", "recent"}

Stored(f) ==
    CASE f = "settings" -> auto_accept_trusted
      [] f = "trusted" -> trusted_ips
      [] f = "recent" -> history

\* AppSettings::default(), Vec::new()
Default(f) == IF f = "settings" THEN FALSE ELSE <<>>

\* length of the serialized value, up to a constant
Size(f, v) == IF f = "settings" THEN (IF v THEN 4 ELSE 5) ELSE Len(v)

Put(f, v) ==
    /\ auto_accept_trusted' = IF f = "settings" THEN v ELSE auto_accept_trusted
    /\ trusted_ips' = IF f = "trusted" THEN v ELSE trusted_ips
    /\ history' = IF f = "recent" THEN v ELSE history

\* the commands and their arguments
SetAuto(v) == [op |-> "set_auto_accept_trusted", v |-> v, ip |-> NoIp, n |-> 0]
AddTrusted(ip) == [op |-> "add_trusted_device_ip", v |-> FALSE, ip |-> ip, n |-> 0]
RemoveTrusted(ip) == [op |-> "remove_trusted_device_ip", v |-> FALSE, ip |-> ip, n |-> 0]
SaveRecent(n) == [op |-> "save_recent_transfer", v |-> FALSE, ip |-> NoIp, n |-> n]
DeleteRecent(n) == [op |-> "delete_transfer_by_id", v |-> FALSE, ip |-> NoIp, n |-> n]
NoCmd == [op |-> "none", v |-> FALSE, ip |-> NoIp, n |-> 0]

TrustCmds == {AddTrusted(ip) : ip \in Ips} \cup {RemoveTrusted(ip) : ip \in Ips}

\* the commands on the history; a record's file_size stands for its id
RecentCmds == {SaveRecent(n) : n \in 1..NSavers} \cup {DeleteRecent(n) : n \in 1..NSavers}

\* delete_transfer_by_id: the records with another id, in their order
delete_transfer_by_id(h, transfer_id) ==
    SelectSeq(h, LAMBDA t : t.file_size # transfer_id)

SaveCmds == {SetAuto(v) : v \in BOOLEAN} \cup TrustCmds \cup {SaveRecent(n) : n \in 1..NSavers}

FileOf(cmd) ==
    CASE cmd.op = "set_auto_accept_trusted" -> "settings"
      [] cmd.op = "save_recent_transfer" -> "recent"
      [] cmd.op = "delete_transfer_by_id" -> "recent"
      [] OTHER -> "trusted"

\* what the command makes of the value it has read
Updated(cmd, old) ==
    CASE cmd.op = "set_auto_accept_trusted" -> cmd.v
      [] cmd.op = "add_trusted_device_ip" -> add_trusted_device_ip(old, cmd.ip)
      [] cmd.op = "remove_trusted_device_ip" -> retain_other(old, cmd.ip)
      [] cmd.op = "save_recent_transfer" ->
             save_recent_transfer(old, TransferRecord("sent", "completed", cmd.n))
      [] cmd.op = "delete_transfer_by_id" -> delete_transfer_by_id(old, cmd.n)

NoVal == [settings |-> FALSE, trusted |-> <<>>, recent |-> <<>>]

\* a saving task: its command, the value it is about to write (val, by file),
\* where the inode it opened now is (fd) and whether it has written
InitSaver ==
    [pc |-> "idle", cmd |-> NoCmd, val |-> NoVal, fd |-> "none",
     wrote |-> FALSE, result |-> "none"]

\* an inode: empty after File::create, whole after one write_all, mixed when
\* a shorter write_all went over a longer one
NoTmp(f) == [exists |-> FALSE, kind |-> "empty", val |-> Default(f)]

\* write_all(v) at offset 0 of an inode
Over(node, f, v) ==
    IF node.kind = "empty" \/ (node.kind = "whole" /\ Size(f, v) >= Size(f, node.val))
    THEN [exists |-> node.exists, kind |-> "whole", val |-> v]
    ELSE [exists |-> node.exists, kind |-> "mixed", val |-> Default(f)]

\* the frontend invokes a command; alone says that no other command is running
Call(j, cmds, alone) ==
    /\ saver[j].pc = "idle"
    /\ alone => \A k \in Savers : saver[k].pc = "idle"
    /\ \E cmd \in cmds :
         /\ cmd.op = "save_recent_transfer" => Len(history) < MaxRecents
         /\ saver' = [saver EXCEPT ![j] =
                        [InitSaver EXCEPT !.cmd = cmd,
                            !.pc = IF FileOf(cmd) = "recent" THEN "lock" ELSE "read"]]
    /\ UNCHANGED <<recvVars, history, snd, batchVars, updVars, discVars, tmp, kind, RECENTS_LOCK>>

\* variant: the lock is taken without waiting for its holder
Lock_no_wait(j) ==
    /\ saver[j].pc = "lock"
    /\ RECENTS_LOCK' = j
    /\ saver' = [saver EXCEPT ![j].pc = "read"]
    /\ UNCHANGED <<recvVars, history, snd, batchVars, updVars, discVars, tmp, kind>>

\* RECENTS_LOCK.lock().await
Lock(j) ==
    /\ saver[j].pc = "lock"
    /\ RECENTS_LOCK = 0
    /\ RECENTS_LOCK' = j
    /\ saver' = [saver EXCEPT ![j].pc = "read"]
    /\ UNCHANGED <<recvVars, history, snd, batchVars, updVars, discVars, tmp, kind>>

\* the guard is dropped when the function returns
Unlock(j) == RECENTS_LOCK' = IF RECENTS_LOCK = j THEN 0 ELSE RECENTS_LOCK

\* read_settings / read_trusted_ips / the read of save_recent_transfer, and the
\* change made to what was read; add_trusted_device_ip returns when the
\* address is in the list
Load(j) ==
    LET cmd == saver[j].cmd
        f == FileOf(cmd)
        new == Updated(cmd, Stored(f))
    IN  /\ saver[j].pc = "read"
        /\ IF cmd.op = "add_trusted_device_ip" /\ new = Stored(f)
           THEN saver' = [saver EXCEPT ![j].pc = "done", ![j].result = "ok"]
           ELSE saver' = [saver EXCEPT ![j].pc = "create", ![j].val[f] = new]
        /\ UNCHANGED <<recvVars, history, snd, batchVars, updVars, discVars, tmp, kind, RECENTS_LOCK>>

\* tokio::fs::write(&tmp, ..), its File::create: the tmp path is created or
\* truncated
Create(j) ==
    LET f == FileOf(saver[j].cmd)
    IN  /\ saver[j].pc = "create"
        /\ tmp' = [tmp EXCEPT ![f] = [exists |-> TRUE, kind |-> "empty", val |-> Default(f)]]
        /\ saver' = [saver EXCEPT ![j].pc = "write", ![j].fd = "tmp"]
        /\ UNCHANGED <<recvVars, history, snd, batchVars, updVars, discVars, kind, RECENTS_LOCK>>

\* tokio::fs::write(&tmp, ..), its write_all: the bytes go to the inode that
\* was opened, wherever a rename has moved it
Write(j) ==
    LET f == FileOf(saver[j].cmd)
        v == saver[j].val[f]
        final == Over([exists |-> TRUE, kind |-> kind[f], val |-> Stored(f)], f, v)
    IN  /\ saver[j].pc = "write"
        /\ saver' = [saver EXCEPT ![j].pc = "rename", ![j].wrote = TRUE]
        /\ IF saver[j].fd = "tmp"
           THEN /\ tmp' = [tmp EXCEPT ![f] = Over(tmp[f], f, v)]
                /\ UNCHANGED <<kind, auto_accept_trusted, trusted_ips, history>>
           ELSE IF saver[j].fd = "final"
           THEN /\ kind' = [kind EXCEPT ![f] = final.kind]
                /\ Put(f, final.val)
                /\ UNCHANGED tmp
           ELSE UNCHANGED <<tmp, kind, auto_accept_trusted, trusted_ips, history>>
        /\ UNCHANGED <<conn, BATCH_RESPONSES, TRANSFER_RESPONSES, TRANSFER_IPS,
                       snd, batchVars, updVars, discVars, RECENTS_LOCK>>

\* where an open inode of file f is after a rename of f's tmp path
Moved(f, s) ==
    IF FileOf(s.cmd) # f THEN s
    ELSE [s EXCEPT !.fd = CASE @ = "tmp" -> "final"
                            [] @ = "final" -> "gone"
                            [] OTHER -> @]

\* tokio::fs::rename(&tmp, &p): atomic; fails when the tmp path is gone
Rename(j) ==
    LET f == FileOf(saver[j].cmd)
    IN  /\ saver[j].pc = "rename"
        /\ IF tmp[f].exists
           THEN /\ kind' = [kind EXCEPT ![f] = tmp[f].kind]
                /\ Put(f, tmp[f].val)
                /\ tmp' = [tmp EXCEPT ![f] = NoTmp(f)]
                /\ saver' = [k \in Savers |->
                               IF k = j
                               THEN [saver[j] EXCEPT !.pc = "done", !.result = "ok",
                                                     !.fd = "none"]
                               ELSE Moved(f, saver[k])]
           ELSE /\ saver' = [saver EXCEPT ![j] =
                               [@ EXCEPT !.pc = "done", !.result = "err", !.fd = "none"]]
                /\ UNCHANGED <<tmp, kind, auto_accept_trusted, trusted_ips, history>>
        /\ Unlock(j)
        /\ UNCHANGED <<conn, BATCH_RESPONSES, TRANSFER_RESPONSES, TRANSFER_IPS,
                       snd, batchVars, updVars, discVars>>

\* the command has returned and the frontend may invoke another
Returned(j) ==
    /\ saver[j].pc = "done"
    /\ saver' = [saver EXCEPT ![j] = InitSaver]
    /\ UNCHANGED <<recvVars, history, snd, batchVars, updVars, discVars, tmp, kind, RECENTS_LOCK>>

SaveStep(j) ==
    \/ Lock(j)
    \/ Load(j)
    \/ Create(j)
    \/ Write(j)
    \/ Rename(j)

\* ------------------------------------------------------------ cancellation
\* the commands cancel_transfer_send and cancel_transfer_receive: the socket of
\* the transfer is closed and the transfer is marked Cancelled in the history
cancel_transfer_send ==
    /\ snd.pc \in {"header", "ack", "open", "body", "finish"}
    /\ ~snd.cancelled
    /\ snd' = [snd EXCEPT !.cancelled = TRUE]
    /\ RecordSent("cancelled")
    /\ UNCHANGED <<recvVars, saveVars, batchVars, updVars, discVars>>

cancel_transfer_receive(c) ==
    /\ conn[c].pc \notin {"idle", "header", "done"}
    /\ ~conn[c].cancelled
    /\ Set(c, [conn[c] EXCEPT !.cancelled = TRUE])
    /\ history' = save_recent_transfer(history,
                      TransferRecord("received", "cancelled", conn[c].size))
    /\ UNCHANGED <<BATCH_RESPONSES, TRANSFER_RESPONSES, TRANSFER_IPS,
                   auto_accept_trusted, trusted_ips, restVars>>

\* ------------------------------------------------------- overall progress
\* the command send_file_with_progress of main.rs and the overall progress
\* block of the send loop; every batch has FilesPerBatch files of FileLen
\* bytes and the frontend passes their sum as total_size
SendTasks == 1..NSendTasks

SendBatches == {"x", "y"}

InitSending ==
    [pc |-> "idle", batch |-> NoBatch, file_index |-> 0, sent |-> 0,
     overall_total |-> 0, underflow |-> FALSE]

\* "If this is the first file, reset the overall progress", then the call of
\* file_transfer::send_file_with_progress with Some(OVERALL_SENT.clone())
InvokeSend(t) ==
    /\ sending[t].pc = "idle"
    /\ \E b \in SendBatches, index \in 0..(FilesPerBatch - 1) :
         /\ index \notin sent_of[b].started
         /\ OVERALL_SENT' = IF index = 0 THEN 0 ELSE OVERALL_SENT
         /\ sending' = [sending EXCEPT ![t] =
                          [InitSending EXCEPT !.pc = "sending", !.batch = b,
                                              !.file_index = index,
                                              !.overall_total = FilesPerBatch * FileLen]]
         /\ sent_of' = [sent_of EXCEPT ![b].started = @ \cup {index}]
    /\ UNCHANGED <<recvVars, history, snd, discVars, saveVars, updVars, eta>>

\* one iteration of the send loop: n bytes written, *global += n,
\* bytes_remaining = overall_total - *global in u64, which panics in a build
\* with overflow checks and wraps in one without
SendProgress(t) ==
    LET task == sending[t]
    IN  /\ task.pc = "sending"
        /\ task.sent < FileLen
        /\ \E n \in 1..Min(BufLen, FileLen - task.sent) :
             LET global == OVERALL_SENT + n
             IN  /\ OVERALL_SENT' = global
                 /\ sent_of' = [sent_of EXCEPT ![task.batch].written = @ + n]
                 /\ IF global > task.overall_total
                    THEN \E checks \in BOOLEAN :
                           sending' = [sending EXCEPT ![t] =
                              [task EXCEPT !.sent = @ + n, !.underflow = TRUE,
                                           !.pc = IF checks THEN "panicked" ELSE @]]
                    ELSE sending' = [sending EXCEPT ![t].sent = @ + n]
        /\ UNCHANGED <<recvVars, history, snd, discVars, saveVars, updVars, eta>>

\* the loop ends and the command returns
SendReturn(t) ==
    /\ sending[t].pc = "sending"
    /\ sending[t].sent = FileLen
    /\ sending' = [sending EXCEPT ![t] = InitSending]
    /\ UNCHANGED <<recvVars, history, snd, discVars, saveVars, updVars, OVERALL_SENT, sent_of, eta>>

\* ---------------------------------------------------------------------- eta
\* format!("{:.0}", x / 1000.0): the nearest integer, a tie going to the even one
round_thousandths(x) ==
    LET q == x \div 1000
        r == x % 1000
    IN  IF r < 500 THEN q
        ELSE IF r > 500 THEN q + 1
        ELSE IF q % 2 = 0 THEN q ELSE q + 1

Placeholder == [eta_ms |-> 0, form |-> "Calcolo ETA...", n1 |-> 0, n2 |-> 0]

\* the formatted text: its form and the numbers in it
eta_formatted(eta_ms) ==
    IF eta_ms < 1000
    THEN [eta_ms |-> eta_ms, form |-> "{}ms", n1 |-> eta_ms, n2 |-> 0]
    ELSE IF eta_ms < 60000
    THEN [eta_ms |-> eta_ms, form |-> "{}s", n1 |-> round_thousandths(eta_ms), n2 |-> 0]
    ELSE IF eta_ms < 3600000
    THEN [eta_ms |-> eta_ms, form |-> "{}m {}s", n1 |-> eta_ms \div 60000,
          n2 |-> (eta_ms % 60000) \div 1000]
    ELSE [eta_ms |-> eta_ms, form |-> "{}h {}m", n1 |-> eta_ms \div 3600000,
          n2 |-> (eta_ms % 3600000) \div 60000]

\* (bytes_remaining as f64 / bytes_per_ms) as u128: the quotient
\* bytes_remaining * elapsed_ms / bytes_transferred truncated; where it is a
\* whole number the two roundings of the f64 divisions may leave it just below
eta_values(bytes_transferred, total_bytes, elapsed_ms) ==
    LET x == (total_bytes - bytes_transferred) * elapsed_ms
        q == x \div bytes_transferred
    IN  IF x % bytes_transferred = 0 /\ q > 0 THEN {q - 1, q} ELSE {q}

\* calculate_eta: the results it can return
calculate_eta(bytes_transferred, total_bytes, elapsed_ms) ==
    IF bytes_transferred = 0 \/ elapsed_ms = 0
    THEN {Placeholder}
    ELSE {eta_formatted(ms) : ms \in eta_values(bytes_transferred, total_bytes, elapsed_ms)}

NoEta ==
    [called |-> FALSE, bytes_transferred |-> 0, total_bytes |-> 0, elapsed_ms |-> 0,
     result |-> Placeholder]

\* the elapsed times tried: around every bucket's ends and the ties
EtaElapsed ==
    {0, 1, 999, 1000, 1499, 1500, 2500, 30000, 59499, 59500, 59800, 59999, 60000,
     61000, 3599999, 3600000, 7260000}

\* a progress report calls calculate_eta(received, file_size, elapsed_ms)
ReportProgress ==
    /\ ~eta.called
    /\ \E r \in calculate_eta(eta.bytes_transferred, eta.total_bytes, eta.elapsed_ms) :
         eta' = [eta EXCEPT !.called = TRUE, !.result = r]
    /\ UNCHANGED <<recvVars, history, snd, discVars, saveVars, updVars, OVERALL_SENT, sending, sent_of>>

\* ------------------------------------------------- updater: the versions
\* a version string: an optional "v", one to three numbers joined by dots and
\* a suffix; two strings are equal when the three parts are
Tag(v, nums, suffix) == [v |-> v, nums |-> nums, suffix |-> suffix]

\* Option::None of a version
NoTag == Tag("", <<>>, "")

Suffixes == {"", "-beta", "-beta.2", "-rc", "-test"}

ReleaseTags ==
    {Tag(v, nums, x) : v \in {"", "v"}, nums \in {<<1, 0, 0>>, <<1, 1, 0>>, <<1, 1>>, <<2>>},
                       x \in Suffixes}

\* the versions the application is built with
CurrentVersions == {Tag("", <<1, 0, 0>>, ""), Tag("", <<1, 1, 0>>, "-beta"), Tag("", <<1, 1, 0>>, "")}

\* normalize_version: the "v" is cut, the suffix is rewritten; what is left
\* of the text after the numbers
normalize_version(tag) ==
    [nums |-> tag.nums,
     tail |-> CASE tag.suffix = "" -> ""
                [] tag.suffix = "-beta" -> "-beta.1"
                [] tag.suffix = "-beta.2" -> "-beta.2"
                [] tag.suffix = "-rc" -> "-rc.1"
                [] OTHER -> ".test"]

ParseError == [ok |-> FALSE, key |-> <<0, 0, 0, 0, 0>>]

\* a semver Version as the key its ordering compares: major, minor, patch,
\* then the pre-release (beta below rc below none) and its number
Version(nums, pre) == [ok |-> TRUE, key |-> nums \o pre]

\* parse_version: Version::parse of the normalized text, then of the text
\* with ".0" and with ".0.0" appended
parse_version(tag) ==
    LET n == normalize_version(tag)
        pad == [i \in 1..3 |-> IF i <= Len(n.nums) THEN n.nums[i] ELSE 0]
    IN  IF n.tail = ".test" THEN ParseError
        ELSE IF n.tail = "" THEN Version(pad, <<3, 0>>)
        ELSE IF Len(n.nums) < 3 THEN ParseError
        ELSE IF n.tail = "-beta.1" THEN Version(pad, <<1, 1>>)
        ELSE IF n.tail = "-beta.2" THEN Version(pad, <<1, 2>>)
        ELSE Version(pad, <<2, 1>>)

\* Ord of Version: the first field that differs decides
Greater(a, b) ==
    \E i \in 1..5 : /\ a.key[i] > b.key[i]
                    /\ \A j \in 1..(i - 1) : a.key[j] = b.key[j]

\* is_newer_version: None where a version does not parse
is_newer_version(current, remote) ==
    LET c == parse_version(current)
        r == parse_version(remote)
    IN  IF c.ok /\ r.ok THEN [ok |-> TRUE, newer |-> Greater(r, c)]
        ELSE [ok |-> FALSE, newer |-> FALSE]

\* UpdateStorage
UpdateStorage(cur, checked, ignored, changelog, ts) ==
    [current_version |-> cur, last_checked_version |-> checked,
     last_ignored_version |-> ignored, show_changelog_for |-> changelog,
     last_check_timestamp |-> ts]

\* UpdateStorage::default(): version 0.0.0, nothing checked or ignored
DefaultStorage == UpdateStorage(Tag("", <<0, 0, 0>>, ""), NoTag, NoTag, NoTag, 0)

\* "Non ri-offrire per almeno 1 ora"
OfferQuietSecs == 3600

\* should_offer_update at system time t: the results it can end with. The
\* subtraction now - last_check_timestamp is in u64: with the timestamp ahead
\* of the clock it panics in a build with overflow checks, and wraps to a
\* value far above an hour in one without
should_offer_update(current_version, tag, storage, t) ==
    LET n == is_newer_version(current_version, tag)
    IN  IF ~n.ok THEN {"err"}
        ELSE IF ~n.newer THEN {"false"}
        ELSE IF storage.last_ignored_version = tag THEN {"false"}
        ELSE IF storage.last_checked_version # tag THEN {"true"}
        ELSE IF t < storage.last_check_timestamp THEN {"panic", "true"}
        ELSE IF t - storage.last_check_timestamp < OfferQuietSecs THEN {"false"}
        ELSE {"true"}

NoOffer ==
    [called |-> FALSE, current_version |-> Tag("", <<1, 0, 0>>, ""), tag |-> NoTag,
     storage |-> UpdateStorage(Tag("", <<1, 0, 0>>, ""), NoTag, NoTag, NoTag, 0),
     now |-> 0, result |-> "none"]

\* the system times tried, and the stored timestamps: an hour before, within
\* the hour, and ahead of the clock (validate_state takes up to a day ahead)
OfferTimes == {7200}

OfferStamps == {0, 3600, 3601, 7200, 7201}

\* perform_update_check calls should_offer_update
CheckOffer ==
    /\ ~offer.called
    /\ \E r \in should_offer_update(offer.current_version, offer.tag, offer.storage, offer.now) :
         offer' = [offer EXCEPT !.called = TRUE, !.result = r]
    /\ UNCHANGED <<recvVars, history, snd, discVars, saveVars, batchVars,
                   update_state, store_call, unix_now, download, UPDATER_STATE, updater>>

\* -------------------------------------------------- updater: the storage
\* "Non più di 1 giorno nel futuro"
FutureSlackSecs == 86400

\* validate_state at system time t; current_version is never empty here
validate_state(state, t) == state.last_check_timestamp <= t + FutureSlackSecs

\* save_state at system time t: "Aggiorna timestamp", write, rename
save_state(state, t) == [state EXCEPT !.last_check_timestamp = t]

\* the operations: what each stores when load_state has returned state
mark_version_ignored(state, version, t) ==
    save_state([state EXCEPT !.last_ignored_version = version], t)

set_changelog_pending(state, version, t) ==
    save_state([state EXCEPT !.show_changelog_for = version], t)

\* variant: the marker is cleared whatever the version
mark_changelog_shown_always(state, version, t) ==
    save_state([state EXCEPT !.show_changelog_for = NoTag], t)

\* "Rimuovi solo se è la versione corrente"
mark_changelog_shown(state, version, t) ==
    IF state.show_changelog_for = version
    THEN save_state([state EXCEPT !.show_changelog_for = NoTag], t)
    ELSE state

update_checked_version(state, version, t) ==
    save_state([state EXCEPT !.last_checked_version = version], t)

reset_ignored_version(state, t) ==
    save_state([state EXCEPT !.last_ignored_version = NoTag], t)

StoreOps ==
    {"mark_version_ignored", "set_changelog_pending", "mark_changelog_shown",
     "update_checked_version", "reset_ignored_version"}

\* the versions the operations are called with
StoreTags == {Tag("", <<1, 1, 0>>, ""), Tag("v", <<1, 1, 0>>, "")}

NoStoreCall ==
    [op |-> "none", version |-> NoTag, ok |-> FALSE, before |-> DefaultStorage, at |-> 0]

Stores(op, state, version, t) ==
    CASE op = "mark_version_ignored" -> mark_version_ignored(state, version, t)
      [] op = "set_changelog_pending" -> set_changelog_pending(state, version, t)
      [] op = "mark_changelog_shown" -> mark_changelog_shown(state, version, t)
      [] op = "update_checked_version" -> update_checked_version(state, version, t)
      [] OTHER -> reset_ignored_version(state, t)

\* one operation of StorageManager from its load_state to its return; a
\* state that does not validate makes it return the error with nothing saved
StoreCall(op, version) ==
    /\ store_call' = [op |-> op, version |-> version, before |-> update_state,
                      ok |-> validate_state(update_state, unix_now), at |-> unix_now]
    /\ update_state' = IF validate_state(update_state, unix_now)
                       THEN Stores(op, update_state, version, unix_now)
                       ELSE update_state
    /\ UNCHANGED <<recvVars, history, snd, discVars, saveVars, batchVars,
                   offer, unix_now, download, UPDATER_STATE, updater>>

\* the system times tried: the clock runs on, or is set back
UnixTimes == {1000, 5000, 90000}

SetClock ==
    /\ unix_now' \in UnixTimes \ {unix_now}
    /\ UNCHANGED <<recvVars, history, snd, discVars, saveVars, batchVars,
                   offer, update_state, store_call, download, UPDATER_STATE, updater>>

\* ------------------------------------------------ updater: the download
\* a call of download_file: the scheme of its url, the downloader's
\* max_retries, the loop's retries, the calls of try_download made, the error
\* of the last one and the result returned
NoDownload ==
    [pc |-> "idle", url |-> "https://", max_retries |-> 0, retries |-> 0,
     attempts |-> 0, last |-> "none", result |-> "none"]

UrlSchemes == {"http://", "https://", "other"}

\* what try_download can fail with
TryErrors == {"Request", "ServerError", "InsufficientSpace", "Io"}

\* "Validazione URL", then create_dir_all of the parent, whose error is
\* returned before the loop
BeginDownload ==
    /\ download.pc = "idle"
    /\ IF download.url \notin {"http://", "https://"}
       THEN download' = [download EXCEPT !.pc = "done", !.result = "InvalidUrl"]
       ELSE \/ download' = [download EXCEPT !.pc = "try"]
            \/ download' = [download EXCEPT !.pc = "done", !.result = "CreateDir"]
    /\ UNCHANGED <<recvVars, history, snd, discVars, saveVars, batchVars,
                   offer, update_state, store_call, unix_now, UPDATER_STATE, updater>>

\* variant: one retry more than max_retries
may_retry_once_more(retries, max_retries) == retries <= max_retries

\* Err(e) if retries < self.max_retries
may_retry(retries, max_retries) == retries < max_retries

\* one turn of the loop: try_download returns, with the file or with an error
TryDownload ==
    /\ download.pc = "try"
    /\ \/ download' = [download EXCEPT !.attempts = @ + 1, !.pc = "done", !.result = "Ok"]
       \/ \E e \in TryErrors :
            download' = IF may_retry(download.retries, download.max_retries)
                        THEN [download EXCEPT !.attempts = @ + 1, !.last = e,
                                              !.retries = @ + 1, !.pc = "sleep"]
                        ELSE [download EXCEPT !.attempts = @ + 1, !.last = e,
                                              !.pc = "done", !.result = e]
    /\ UNCHANGED <<recvVars, history, snd, discVars, saveVars, batchVars,
                   offer, update_state, store_call, unix_now, UPDATER_STATE, updater>>

\* tokio::time::sleep(2^retries seconds) is over
WakeDownload ==
    /\ download.pc = "sleep"
    /\ download' = [download EXCEPT !.pc = "try"]
    /\ UNCHANGED <<recvVars, history, snd, discVars, saveVars, batchVars,
                   offer, update_state, store_call, unix_now, UPDATER_STATE, updater>>

\* ------------------------------------------------ updater: the commands
\* UpdateState: the variant, the version of UpdateAvailable and Completed, the
\* downloaded count of Downloading; the text of Error is left out
UpdateState(variant, version, downloaded) ==
    [state |-> variant, version |-> version, downloaded |-> downloaded]

Idle == UpdateState("Idle", NoTag, 0)
Checking == UpdateState("Checking", NoTag, 0)
UpdateAvailable(version) == UpdateState("UpdateAvailable", version, 0)
Downloading(downloaded) == UpdateState("Downloading", NoTag, downloaded)
Installing == UpdateState("Installing", NoTag, 0)
\* UpdateState::Completed
UpdateCompleted(version) == UpdateState("Completed", version, 0)
Error == UpdateState("Error", NoTag, 0)

UpdaterTasks == 1..NUpdaterCalls

\* the tag_name of the latest release on GitHub
LatestTag == Tag("v", <<1, 1, 0>>, "")

\* one invocation of a command: where it is, what it returns, the version of
\* its update_info, the progress callbacks of its download, and settled: it
\* has set its final state, or cancel_download or ignore_update_version has
\* set Idle while it was downloading
InitUpdaterTask ==
    [pc |-> "idle", cmd |-> "none", result |-> "none", version |-> NoTag,
     downloaded |-> 0, settled |-> FALSE]

\* the invocations, the tasks the progress callbacks have spawned and that
\* have not run yet (each with the invocation it is of and that one's settled),
\* and the map ACTIVE_DOWNLOADS
NoCalls ==
    [call |-> [t \in UpdaterTasks |-> InitUpdaterTask], spawned |-> {},
     ACTIVE_DOWNLOADS |-> [k \in {} |-> FALSE]]

\* what no command of the updater touches
UpdaterFrame ==
    UNCHANGED <<recvVars, history, snd, discVars, saveVars, batchVars,
                offer, store_call, download, unix_now>>

Begins(t, cmd, pc) ==
    [updater EXCEPT !.call[t] = [InitUpdaterTask EXCEPT !.cmd = cmd, !.pc = pc]]

Fails(t, cmd) ==
    [updater EXCEPT !.call[t] =
        [InitUpdaterTask EXCEPT !.cmd = cmd, !.pc = "done", !.result = "Err"]]

\* matches!(*state_lock, UpdateState::Checking)
check_gate(state) == state = Checking

\* check_for_updates, its first hold of the lock
check_for_updates(t) ==
    /\ updater.call[t].pc = "idle"
    /\ IF check_gate(UPDATER_STATE)
       THEN /\ updater' = Fails(t, "check_for_updates")
            /\ UNCHANGED UPDATER_STATE
       ELSE /\ UPDATER_STATE' = Checking
            /\ updater' = Begins(t, "check_for_updates", "perform_update_check")
    /\ UNCHANGED update_state
    /\ UpdaterFrame

\* perform_update_check: load_state, the release from GitHub,
\* should_offer_update, the asset for the platform, update_checked_version;
\* a panic of should_offer_update ends the task where it is
perform_update_check(t) ==
    /\ updater.call[t].pc = "perform_update_check"
    /\ \E fails \in {"none", "github", "asset", "storage"},
          should_update \in should_offer_update(update_state.current_version, LatestTag,
                                                update_state, unix_now) :
         LET loaded == validate_state(update_state, unix_now)
             result ==
                 IF ~loaded \/ fails = "github" \/ should_update = "err" THEN "Err"
                 ELSE IF should_update = "panic" THEN "panic"
                 ELSE IF should_update = "true" /\ fails = "asset" THEN "Err"
                 ELSE IF fails = "storage" THEN "Err"
                 ELSE IF should_update = "true" THEN "Some" ELSE "None"
         IN  /\ update_state' =
                   IF result \in {"Some", "None"}
                   THEN update_checked_version(update_state, LatestTag, unix_now)
                   ELSE update_state
             /\ updater' = [updater EXCEPT !.call[t].result = result,
                               !.call[t].pc = IF result = "panic" THEN "panicked"
                                              ELSE "check_final"]
    /\ UNCHANGED UPDATER_STATE
    /\ UpdaterFrame

\* check_for_updates, "Aggiorna lo stato finale"
check_final(t) ==
    /\ updater.call[t].pc = "check_final"
    /\ UPDATER_STATE' = CASE updater.call[t].result = "Some" -> UpdateAvailable(LatestTag)
                           [] updater.call[t].result = "None" -> Idle
                           [] OTHER -> Error
    /\ updater' = [updater EXCEPT !.call[t].pc = "done"]
    /\ UNCHANGED update_state
    /\ UpdaterFrame

\* UpdateState::UpdateAvailable(info) => info
download_gate(state) == state.state = "UpdateAvailable"

\* download_and_install_update, its first hold of the lock
download_and_install_update(t) ==
    /\ updater.call[t].pc = "idle"
    /\ IF download_gate(UPDATER_STATE)
       THEN /\ UPDATER_STATE' = Downloading(0)
            /\ updater' = [updater EXCEPT !.call[t] =
                              [InitUpdaterTask EXCEPT !.cmd = "download_and_install_update",
                                  !.pc = "download_file", !.version = UPDATER_STATE.version]]
       ELSE /\ updater' = Fails(t, "download_and_install_update")
            /\ UNCHANGED UPDATER_STATE
    /\ UNCHANGED update_state
    /\ UpdaterFrame

\* the progress callback of download_file: tokio::spawn of the task that
\* will set Downloading
Progress(t) ==
    /\ updater.call[t].pc = "download_file"
    /\ updater.call[t].downloaded < MaxChunks
    /\ updater' = [updater EXCEPT !.call[t].downloaded = @ + 1,
                      !.spawned = @ \cup {[of |-> t, settled |-> updater.call[t].settled,
                                           downloaded |-> updater.call[t].downloaded + 1]}]
    /\ UNCHANGED <<UPDATER_STATE, update_state>>
    /\ UpdaterFrame

\* a spawned task runs: it takes the lock and sets Downloading
ProgressTask(p) ==
    /\ p \in updater.spawned
    /\ UPDATER_STATE' = Downloading(p.downloaded)
    /\ updater' = [updater EXCEPT !.spawned = @ \ {p}]
    /\ UNCHANGED update_state
    /\ UpdaterFrame

\* download_file returns, or one of the calls before it fails
DownloadReturns(t) ==
    /\ updater.call[t].pc = "download_file"
    /\ \/ updater' = [updater EXCEPT !.call[t].pc = "set_installing"]
       \/ updater' = [updater EXCEPT !.call[t].pc = "download_final",
                         !.call[t].result = "Err"]
    /\ UNCHANGED <<UPDATER_STATE, update_state>>
    /\ UpdaterFrame

\* "Aggiorna stato a installazione"
SetInstalling(t) ==
    /\ updater.call[t].pc = "set_installing"
    /\ UPDATER_STATE' = Installing
    /\ updater' = [updater EXCEPT !.call[t].pc = "install_update"]
    /\ UNCHANGED update_state
    /\ UpdaterFrame

\* install_update and set_changelog_pending
install_update(t) ==
    /\ updater.call[t].pc = "install_update"
    /\ \E fails \in {"none", "install", "storage"} :
         LET ok == fails = "none" /\ validate_state(update_state, unix_now)
         IN  /\ update_state' =
                   IF ok THEN set_changelog_pending(update_state, updater.call[t].version,
                                                    unix_now)
                   ELSE update_state
             /\ updater' = [updater EXCEPT !.call[t].pc = "download_final",
                               !.call[t].result = IF ok THEN "Ok" ELSE "Err"]
    /\ UNCHANGED UPDATER_STATE
    /\ UpdaterFrame

\* the spawned task p when the downloads of the invocations ts are settled
Settled(p, ts) == IF p.of \in ts THEN [p EXCEPT !.settled = TRUE] ELSE p

\* download_and_install_update, "Aggiorna stato finale"
download_final(t) ==
    /\ updater.call[t].pc = "download_final"
    /\ UPDATER_STATE' = IF updater.call[t].result = "Ok"
                        THEN UpdateCompleted(updater.call[t].version) ELSE Error
    /\ updater' = [updater EXCEPT
                      !.call[t] = [InitUpdaterTask EXCEPT !.pc = "done",
                                      !.cmd = updater.call[t].cmd,
                                      !.result = updater.call[t].result,
                                      !.settled = TRUE],
                      !.spawned = {Settled(p, {t}) : p \in @}]
    /\ UNCHANGED update_state
    /\ UpdaterFrame

\* the invocations whose download is on its way
Running ==
    {t \in UpdaterTasks :
        updater.call[t].pc \in {"download_file", "set_installing", "install_update",
                                "download_final"}}

\* ignore_update_version(version) and reset_ignored_version: the storage
\* first
StoreThenIdle(t, cmd, version) ==
    /\ updater.call[t].pc = "idle"
    /\ \E ok \in {validate_state(update_state, unix_now), FALSE} :
         /\ update_state' =
               IF ~ok THEN update_state
               ELSE IF cmd = "ignore_update_version"
               THEN mark_version_ignored(update_state, version, unix_now)
               ELSE reset_ignored_version(update_state, unix_now)
         /\ updater' = IF ok THEN Begins(t, cmd, "set_idle") ELSE Fails(t, cmd)
    /\ UNCHANGED UPDATER_STATE
    /\ UpdaterFrame

\* cancel_download: the flag "current" goes into ACTIVE_DOWNLOADS, which
\* nothing reads
cancel_download(t) ==
    /\ updater.call[t].pc = "idle"
    /\ updater' = [Begins(t, "cancel_download", "set_idle")
                      EXCEPT !.ACTIVE_DOWNLOADS = [k \in {"current"} |-> FALSE]]
    /\ UNCHANGED <<UPDATER_STATE, update_state>>
    /\ UpdaterFrame

\* "Resetta stato a idle" of ignore_update_version and reset_ignored_version,
\* "Aggiorna stato" of cancel_download
set_idle(t) ==
    /\ updater.call[t].pc = "set_idle"
    /\ UPDATER_STATE' = Idle
    /\ LET settles == IF updater.call[t].cmd = "reset_ignored_version" THEN {} ELSE Running
       IN  updater' =
             [updater EXCEPT
                 !.call = [u \in UpdaterTasks |->
                             IF u = t
                             THEN [updater.call[u] EXCEPT !.pc = "done", !.result = "Ok"]
                             ELSE IF u \in settles
                             THEN [updater.call[u] EXCEPT !.settled = TRUE]
                             ELSE updater.call[u]],
                 !.spawned = {Settled(p, settles) : p \in @}]
    /\ UNCHANGED update_state
    /\ UpdaterFrame

\* the command has returned, or its task has ended in a panic: the frontend
\* may invoke another; the tasks it has spawned stay
UpdaterReturns(t) ==
    /\ updater.call[t].pc \in {"done", "panicked"}
    /\ updater' = [updater EXCEPT !.call[t] = InitUpdaterTask]
    /\ UNCHANGED <<UPDATER_STATE, update_state>>
    /\ UpdaterFrame

\* more than OfferQuietSecs go by
UpdaterClock ==
    /\ unix_now < OfferQuietSecs
    /\ unix_now' = unix_now + OfferQuietSecs + 1
    /\ UNCHANGED <<recvVars, history, snd, discVars, saveVars, batchVars,
                   offer, update_state, store_call, download, UPDATER_STATE, updater>>

\* ------------------------------------------------------------ specification
\* no task running, empty tables, no history
InitIdle ==
    /\ conn = [c \in Conns |-> InitConn]
    /\ BATCH_RESPONSES = [k \in BatchKeys |-> NoEntry]
    /\ TRANSFER_RESPONSES = [t \in Transfers |-> NoResponse]
    /\ TRANSFER_IPS = [t \in Transfers |-> NoIp]
    /\ history = <<>>
    /\ snd = InitSnd
    /\ saver = [j \in Savers |-> InitSaver]
    /\ tmp = [f \in Files |-> NoTmp(f)]
    /\ kind = [f \in Files |-> "whole"]
    /\ RECENTS_LOCK = 0
    /\ OVERALL_SENT = 0
    /\ sending = [t \in SendTasks |-> InitSending]
    /\ sent_of = [b \in SendBatches |-> [started |-> {}, written |-> 0]]

\* the updater before any of its commands is invoked
InitUpdater ==
    /\ update_state = DefaultStorage
    /\ store_call = NoStoreCall
    /\ unix_now = 0
    /\ download = NoDownload
    /\ UPDATER_STATE = Idle
    /\ updater = NoCalls

InitTables ==
    /\ InitIdle
    /\ eta = NoEta
    /\ offer = NoOffer
    /\ InitUpdater

\* the registry at process start
InitRegistry ==
    /\ devices = <<>>
    /\ now = 0
    /\ next_sweep = 0
    /\ heard = [a \in Addrs |-> NotHeard]
    /\ listener = InitListener
    /\ beat = InitBeat
    /\ udp = InitUdpIdle

InitNet(locals) ==
    /\ local_ip \in locals
    /\ own_ip = Advertised(local_ip)

\* the settings and trust files as an earlier run may have left them
Init ==
    /\ InitTables
    /\ InitRegistry
    /\ InitNet({LocalAddr})
    /\ auto_accept_trusted \in BOOLEAN
    /\ trusted_ips \in TrustLists

ConnStep(c) ==
    \/ BatchLookup(c)
    \/ ReadSettings(c)
    \/ ReadTrusted(c)
    \/ AutoPoll(c)
    \/ BatchInsert(c)
    \/ PollResponse(c)
    \/ RemoveResponse(c)
    \/ FolderPoll(c)
    \/ WriteAck(c)
    \/ Cleanup(c)
    \/ ReReadDir(c)
    \/ CreateDest(c)
    \/ RecvChunk(c)
    \/ Complete(c)

UserStep ==
    \/ \E c \in Conns : PickFolder(c)
    \/ \E c \in Conns, a \in BOOLEAN, trust \in BOOLEAN : respond_transfer(c, a, trust)
    \/ \E v \in BOOLEAN : set_auto_accept_trusted(v)
    \/ \E ip \in Ips : remove_trusted_device_ip(ip)

\* the file server with NConn connections carrying offers of one batch
NextRecv ==
    \/ \E c \in Conns : AcceptConnection(c, Ips)
    \/ \E c \in Conns : ReadHeader(c, BatchOffers(c))
    \/ \E c \in Conns : ConnStep(c)
    \/ UserStep

SpecRecv == Init /\ [][NextRecv]_vars

\* the file server with one connection and every kind of header
NextConn ==
    \/ AcceptConnection(1, Ips)
    \/ ReadHeader(1, AllHeaders)
    \/ ConnStep(1)
    \/ UserStep

SpecConn == Init /\ [][NextConn]_vars

\* the runtime keeps scheduling the connection's task; nothing makes the user act
FairSpecConn == SpecConn /\ WF_vars(ConnStep(1))

\* send_file_with_progress against a peer that may answer anything
NextSend ==
    \/ Metadata
    \/ Connect
    \/ WriteHeader
    \/ ReadAck
    \/ OpenFile
    \/ SendChunk
    \/ FinishSend

InitSender ==
    /\ InitTables
    /\ InitRegistry
    /\ InitNet({LocalAddr})
    /\ auto_accept_trusted = FALSE
    /\ trusted_ips = <<>>

SpecSend == InitSender /\ [][NextSend]_vars

\* the listener, the cleanup loop and the clock
NextDisc ==
    \/ Listen(OnAir)
    \/ Sweep
    \/ Tick
    \/ NetChange

InitDisc ==
    /\ InitTables
    /\ InitRegistry
    /\ InitNet({LocalAddr, NoIp})
    /\ auto_accept_trusted = FALSE
    /\ trusted_ips = <<>>

SpecDisc == InitDisc /\ [][NextDisc]_vars

\* DiscoveryManager::start_discovery: listener, cleanup interval and clock
NextUdp ==
    \/ listen_loop
    \/ udp_cleanup_loop
    \/ UdpTick

\* the process starts at any fraction of a second of the system time
InitUdp ==
    /\ InitTables
    /\ devices = <<>>
    /\ now \in 0..(TicksPerSec - 1)
    /\ next_sweep = 0
    /\ heard = [a \in Addrs |-> NotHeard]
    /\ listener = InitListener
    /\ beat = InitBeat
    /\ udp = [InitUdpIdle EXCEPT !.next_sweep = now]
    /\ InitNet({LocalAddr})
    /\ auto_accept_trusted = FALSE
    /\ trusted_ips = <<>>

SpecUdp == InitUdp /\ [][NextUdp]_vars

\* the command add_recent_transfer called MaxSaves times; the n-th call
\* reports a file of n bytes, which tells the records apart
add_recent_transfer ==
    /\ LET n == IF history = <<>> THEN 1 ELSE Head(history).file_size + 1
       IN  /\ n <= MaxSaves
           /\ history' = save_recent_transfer(history, TransferRecord("sent", "completed", n))
    /\ UNCHANGED <<recvVars, restVars>>

NextHist == add_recent_transfer

SpecHist == Init /\ [][NextHist]_vars

\* the saving commands called one after the other
NextSaveSeq ==
    \/ \E j \in Savers : Call(j, SaveCmds, TRUE)
    \/ \E j \in Savers : SaveStep(j)
    \/ \E j \in Savers : Returned(j)

SpecSaveSeq == Init /\ [][NextSaveSeq]_vars

\* NSavers saving commands, one per task, running together
NextSave ==
    \/ \E j \in Savers : Call(j, SaveCmds, FALSE)
    \/ \E j \in Savers : SaveStep(j)

SpecSave == Init /\ [][NextSave]_vars

\* NSendTasks send commands at a time, for the files of two batches
NextBatch ==
    \/ \E t \in SendTasks : InvokeSend(t)
    \/ \E t \in SendTasks : SendProgress(t)
    \/ \E t \in SendTasks : SendReturn(t)

SpecBatch == InitSender /\ [][NextBatch]_vars

\* one transfer, received or sent, that the user may cancel
NextCancel ==
    \/ /\ snd = InitSnd
       /\ \/ NextConn
          \/ cancel_transfer_receive(1)
    \/ /\ conn[1].pc = "idle"
       /\ \/ NextSend
          \/ cancel_transfer_send

SpecCancel == Init /\ [][NextCancel]_vars

\* calculate_eta on progress of up to MaxEtaBytes bytes
InitEtaArgs ==
    /\ InitIdle
    /\ InitRegistry
    /\ InitNet({LocalAddr})
    /\ auto_accept_trusted = FALSE
    /\ trusted_ips = <<>>
    /\ \E total \in 1..MaxEtaBytes, done \in 0..MaxEtaBytes, ms \in EtaElapsed :
         /\ done <= total
         /\ eta = [NoEta EXCEPT !.bytes_transferred = done, !.total_bytes = total,
                                !.elapsed_ms = ms]
    /\ offer = NoOffer
    /\ InitUpdater

NextEta == ReportProgress

SpecEta == InitEtaArgs /\ [][NextEta]_vars

\* the two listeners alone, on every kind of datagram
NextListen ==
    \/ Listen(OnAir)
    \/ listen_loop
    \/ NetChange

SpecListen == InitDisc /\ [][NextListen]_vars

\* ------------------------------------------------------------------ claims
\* transfer_request events emitted for batch key k
Prompts(k) == Cardinality({c \in Conns : conn[c].bid = k /\ conn[c].prompt # "no"})

Acked(c) == conn[c].ack \in {"accept", "user_rejected"}

\* C1: for the offers sharing one batch id the transfer_request prompt is
\* emitted at most once, and all connections that have answered their sender
\* act on the same (accepted, destinationDir) pair.
C1_BatchIdempotence ==
    /\ \A k \in BatchKeys : Prompts(k) <= 1
    /\ \A c, d \in Conns :
         (conn[c].bid = conn[d].bid /\ Acked(c) /\ Acked(d)) =>
           /\ conn[c].accept = conn[d].accept
           /\ (conn[c].dest # NoDir /\ conn[d].dest # NoDir) => conn[c].dest = conn[d].dest

\* C2: an offer that arrives after a user rejection was recorded for its batch
\* is answered user_rejected, and no prompt is emitted for it.
C2_RejectedStaysRejected ==
    \A c \in Conns :
        conn[c].after_reject =>
          /\ conn[c].prompt = "no"
          /\ ~conn[c].auto
          /\ conn[c].ack \in {"none", "user_rejected"}

\* C3: received never exceeds offer.file_size, and a completed receive has
\* written exactly offer.file_size bytes to the destination file.
C3_ByteExact ==
    \A c \in Conns :
        /\ conn[c].received <= conn[c].size
        /\ conn[c].written <= conn[c].size
        /\ conn[c].outcome = "complete" =>
             conn[c].file /\ conn[c].written = conn[c].size

C3_Witness ==
    \E c \in Conns : conn[c].outcome = "complete" /\ conn[c].size = MaxFileSize

\* C4: the sender returns Ok and records Completed only if all file_size
\* bytes announced in the offer were written to the socket.
C4_SenderSuccess ==
    /\ snd.result = "ok" => snd.sent = snd.file_size /\ snd.body = snd.file_size
    /\ \A i \in 1..Len(history) :
         history[i].status = "completed" => snd.body = history[i].file_size

\* C5: whenever the sender returns an error that is not a peer rejection,
\* exactly one Failed record has been appended.
C5_SenderFailureRecorded ==
    (snd.pc = "done" /\ snd.result \notin {"ok", "rejected"}) =>
        Len(history) = 1 /\ history[1].status = "failed"

\* C6: the sender writes body bytes only after the whole header was written
\* and an ack with accept == true was read; on any other ack it writes none.
C6_SenderOrdering ==
    /\ (snd.body > 0 \/ snd.pc \in {"open", "body", "finish"}) =>
          snd.hdr /\ snd.ack = "accept_true"
    /\ snd.ack # "none" => snd.hdr
    /\ snd.ack # "accept_true" => snd.body = 0 /\ snd.result # "ok"

C6_Witness == snd.ack = "accept_true" /\ snd.body > 0 /\ snd.result = "ok"

\* C7: the receiver creates the destination file and reads body bytes only
\* after it obtained a decision and wrote accept:true; a connection without
\* an accept:true ack has no file and has read no body byte.
C7_ReceiverOrdering ==
    \A c \in Conns :
        /\ (conn[c].file \/ conn[c].received > 0 \/ conn[c].pc \in {"create", "recv"})
              => conn[c].ack = "accept"
        /\ Acked(c) => (conn[c].stored \/ ~conn[c].first)
        /\ conn[c].ack # "accept" =>
              ~conn[c].file /\ conn[c].received = 0 /\ conn[c].written = 0

C7_Witness ==
    \E c \in Conns : conn[c].outcome = "complete" /\ conn[c].ack = "accept"
                     /\ ~conn[c].first

\* C8: an ack write failure or a directory failure of one connection leaves
\* the batch entry untouched for another connection of the batch that has
\* written accept:true and is about to look its destination up.
C8_ErrorIsolation ==
    [][\A c, d \in Conns :
         ( /\ c # d
           /\ conn[c].bid = conn[d].bid
           /\ conn[c].pc \in {"ack", "create"}
           /\ conn'[c].outcome \in {"ack_write_failed", "dir_failed"}
           /\ conn[d].ack = "accept"
           /\ conn[d].pc = "reread" )
         => BATCH_RESPONSES'[conn[d].bid] = BATCH_RESPONSES[conn[d].bid]]_vars

AwaitingDecision ==
    {"lookup", "settings", "trusted", "auto_wait", "auto_insert",
     "wait_response", "remove_response", "folder_wait", "insert"}

\* C9: a connection that awaits the decision eventually leaves that state,
\* whether or not the user ever answers.
C9_BoundedWait ==
    (conn[1].pc \in AwaitingDecision) ~> (conn[1].pc \notin AwaitingDecision)

\* transfer_request events emitted for batch key k on connections from ip
PromptsFrom(k, ip) ==
    Cardinality({c \in Conns : conn[c].bid = k /\ conn[c].ip = ip /\ conn[c].prompt # "no"})

\* C10: when the first offer of a batch is auto-accepted (autoAcceptTrusted
\* set, sender trusted), no transfer_request is emitted for the offers of that
\* batch from that sender, and accept:true is written only once a folder was
\* chosen and stored.
C10_TrustBypass ==
    \A c \in Conns :
        (conn[c].opens /\ conn[c].auto) =>
          /\ PromptsFrom(conn[c].bid, conn[c].ip) = 0
          /\ conn[c].ack = "accept" => conn[c].stored

\* C11: when the first connection of a batch writes its ack the table holds
\* that batch's entry, and a connection of the batch that looks the batch up
\* after that ack was written finds the decision the first connection acked.
C11_PersistBeforeAck ==
    [][\A c \in Conns :
         /\ ( /\ conn[c].pc = "ack"
              /\ conn[c].first
              /\ conn'[c].ack \in {"accept", "user_rejected"} )
            => BATCH_RESPONSES[conn[c].bid].present
         /\ \A d \in Conns \ {c} :
              ( /\ conn[c].first
                /\ Acked(c)
                /\ conn[d].bid = conn[c].bid
                /\ conn[d].pc = "lookup"
                /\ conn'[d].pc # "lookup" )
              => /\ conn'[d].pc = "ack"
                 /\ conn'[d].accept = conn[c].accept]_vars

\* C12: an ack with accept == false makes the sender return the "rejected by
\* peer" error with no body byte written and exactly one history record, whose
\* status is Cancelled.
C12_RejectionIsCancelled ==
    snd.ack = "accept_false" =>
        /\ snd.pc = "done"
        /\ snd.result = "rejected"
        /\ snd.body = 0
        /\ history = <<TransferRecord("sent", "cancelled", snd.file_size)>>

C12_Witness == snd.ack = "accept_false" /\ snd.result = "rejected" /\ Len(history) = 1

\* C15: once more than 8 KiB of ack bytes came without a newline the sender
\* has aborted with the "Ack too large" error and has written no body byte.
C15_OversizedAck ==
    snd.alen > AckCap =>
        /\ snd.pc = "done"
        /\ snd.ack = "toolarge"
        /\ snd.result = "err_ack_toolarge"
        /\ snd.body = 0

C15_Witness == snd.alen = AckCap + 1 /\ snd.result = "err_ack_toolarge" /\ snd.hdr

FailedOutcomes ==
    {"closed_early", "read_error", "dir_failed", "file_failed", "file_write_error"}

\* C13: an accepted inbound transfer that ended without completing (early
\* close, read error, directory or file creation failure, write error) has a
\* Failed record in the history.
C13_ReceiverFailureRecorded ==
    \A c \in Conns :
        (conn[c].ack = "accept" /\ conn[c].outcome \in FailedOutcomes) =>
            \E i \in 1..Len(history) :
                history[i] = TransferRecord("received", "failed", conn[c].size)

\* the handler of connection c ended on its header: nothing was parsed, no
\* prompt, no table entry, no file
EndedOnHeader(c) ==
    /\ conn[c].pc = "done"
    /\ conn[c].tid = InitConn.tid /\ conn[c].bid = InitConn.bid /\ conn[c].size = 0
    /\ conn[c].prompt = "no" /\ ~conn[c].auto /\ ~conn[c].stored
    /\ ~conn[c].file /\ conn[c].received = 0 /\ conn[c].written = 0
    /\ \A k \in BatchKeys : BATCH_RESPONSES[k] = NoEntry
    /\ \A t \in Transfers : TRANSFER_RESPONSES[t] = NoResponse /\ TRANSFER_IPS[t] = NoIp

OversizedHeader(text) ==
    \A c \in Conns :
        /\ (conn[c].pc \notin {"idle", "header"} /\ conn[c].hlen > HeaderCap)
              => conn[c].outcome = "toolarge"
        /\ conn[c].outcome = "toolarge" =>
              /\ conn[c].hlen > HeaderCap
              /\ conn[c].ack \in {text, "none"}
              /\ EndedOnHeader(c)

\* C14 (as stated): a header of more than 16 KiB without a newline is answered
\* with the negative ack whose error is "header too large", the handler ends,
\* nothing is parsed, no table is touched and no file is created; a header of
\* at most 16 KiB followed by a newline is not rejected for its size.
C14_AsStated == OversizedHeader("header too large")

\* C14 (amended): the same, the error text of the negative ack being
\* "header too large or missing newline".
C14_OversizedHeader == OversizedHeader("header too large or missing newline")

C14_Witness ==
    \E c \in Conns : /\ conn[c].hlen = HeaderCap + 1
                     /\ conn[c].outcome = "toolarge"
                     /\ conn[c].ack = "header too large or missing newline"

\* C16: a newline-terminated header that is not UTF-8, or not a FileOffer, is
\* answered with one negative ack naming that error and the handler ends: no
\* prompt, no entry in the three tables, no file.
C16_MalformedHeader ==
    \A c \in Conns :
        /\ conn[c].outcome = "badutf8" =>
              conn[c].ack \in {"invalid utf8 in header", "none"}
        /\ conn[c].outcome = "badjson" =>
              conn[c].ack \in {"invalid json", "none"}
        /\ conn[c].outcome \in {"badutf8", "badjson"} =>
              /\ conn[c].hnl /\ conn[c].hlen <= HeaderCap
              /\ EndedOnHeader(c)

C16_Witness ==
    \E c \in Conns : /\ conn[c].outcome = "badjson"
                     /\ conn[c].ack = "invalid json"
                     /\ conn[c].hlen = HeaderCap

Present(a) == \E i \in 1..Len(get_devices) : get_devices[i].ip = a

\* C19: the registry never holds an entry for the address this device
\* advertises in its own heartbeats.
C19_SelfFiltering == ~Present(own_ip)

Secs(n) == n * TicksPerSec

\* every address in the snapshot was heard from, at most timeout plus one
\* sweep interval ago
EvictedInTime ==
    \A a \in Addrs :
        Present(a) => /\ heard[a].at >= 0
                      /\ now - heard[a].at <= Secs(DEVICE_TIMEOUT_SECS + CleanupSleepSecs)

\* C17 for get_devices of main.rs: a peer not heard from for longer than the
\* timeout is out of the snapshot within one sweep interval; a peer last
\* seen at t=0 is present one second before the timeout (t=5 for a timeout of
\* 6 s) and absent from one sweep interval after it on (so at t=8).
C17_LivenessEviction ==
    /\ EvictedInTime
    /\ \A a \in Addrs :
         /\ (heard[a].at = 0 /\ now <= Secs(DEVICE_TIMEOUT_SECS - 1)) => Present(a)
         /\ (heard[a].at = 0 /\ now >= Secs(DEVICE_TIMEOUT_SECS + CleanupSleepSecs))
               => ~Present(a)

C17_Witness ==
    /\ heard[PeerAddr].at = 0
    /\ now = Secs(8)
    /\ ~Present(PeerAddr)

\* C18: a sweep removes an entry only when now - lastSeen > timeout; an entry
\* whose age is at most the timeout survives every sweep.
C18_StrictThreshold ==
    [][\A i \in 1..Len(devices) :
         Index(devices', devices[i].device.ip) = {}
            => now - devices[i].last_seen_instant > Secs(DEVICE_TIMEOUT_SECS)]_vars

\* C20: the registry holds at most one entry per address, and the entry of an
\* address carries every field of the last heartbeat taken for that address,
\* its time of receipt included.
C20_UpsertByAddress ==
    /\ \A i, j \in 1..Len(devices) :
         devices[i].device.ip = devices[j].device.ip => i = j
    /\ \A i \in 1..Len(devices) :
         LET a == devices[i].device.ip
         IN devices[i] = DeviceEntry(DeviceOf(a, heard[a].v), heard[a].at)

C20_Witness ==
    /\ Len(devices) = 2
    /\ devices[1].device = DeviceOf(PeerAddr, "v2")
    /\ devices[1].last_seen_instant > devices[2].last_seen_instant
    /\ now >= Secs(DEVICE_TIMEOUT_SECS + CleanupSleepSecs)

\* C17 for get_active_devices of DiscoveryManager: a device in the snapshot
\* was heard from at most timeout plus one cleanup interval ago, that is, a
\* peer silent for longer than the timeout is gone within one sweep interval.
C17_UdpEviction ==
    \A i \in DeviceIds :
        udp.devices[i] \in get_active_devices
            => now - udp.heard[i] <= Secs(TIMEOUT_SECONDS + CLEANUP_INTERVAL_SECS)

\* C21: a datagram that does not decode leaves the registry as it was and the
\* listener running (udp_listener_loop of main.rs, listen_loop of
\* udp_discovery.rs); a heartbeat taken after such a datagram is upserted.
C21_MalformedDatagram ==
    [][/\ listener'.alive /\ udp'.alive
       /\ (listener' # listener /\ listener'.last = "junk")
             => devices' = devices /\ heard' = heard
       /\ (udp' # udp /\ udp'.last = "junk")
             => udp'.devices = udp.devices /\ udp'.heard = udp.heard
       /\ (listener.dropped /\ heard' # heard)
             => \E a \in Addrs, v \in Versions :
                   /\ heard'[a] = [at |-> now, v |-> v]
                   /\ \E i \in 1..Len(devices') :
                        devices'[i] = DeviceEntry(DeviceOf(a, v), now)
       /\ (udp.dropped /\ udp'.last = "heartbeat" /\ udp' # udp)
             => \E i \in DeviceIds : /\ udp'.devices[i].present
                                     /\ udp'.devices[i].last_seen = current_timestamp
                                     /\ udp'.heard[i] = now]_vars

C21_Witness ==
    /\ listener.dropped /\ listener.last = "heartbeat" /\ Present(PeerAddr)
    /\ udp.dropped /\ udp.last = "heartbeat" /\ get_active_devices # {}

\* C22: the stored history has at most 100 records, the record of the latest
\* call first and then the earlier ones in order, so that the records dropped
\* at the cap are the oldest.
C22_HistoryShape ==
    /\ Len(history) <= RecentsCap
    /\ \A i \in 1..Len(history) :
         history[i].file_size = Head(history).file_size - (i - 1)
    /\ history # <<>> =>
         Len(history) = Min(Head(history).file_size, RecentsCap)

C22_Witness ==
    /\ Len(history) = RecentsCap
    /\ Head(history).file_size > RecentsCap + 1

Occurrences(list, ip) == Cardinality({i \in 1..Len(list) : list[i] = ip})

\* C23: with the commands called one after the other, no address is twice in
\* the trust list, an add_trusted_device_ip that has returned leaves its
\* address in the list once, and adding an address a second time changes
\* nothing.
C23_AddIdempotent ==
    /\ \A ip \in Ips : Occurrences(trusted_ips, ip) <= 1
    /\ \A j \in Savers :
         (saver[j].pc = "done" /\ saver[j].cmd.op = "add_trusted_device_ip")
            => Occurrences(trusted_ips, saver[j].cmd.ip) = 1
    /\ \A ip \in Ips :
         LET once == add_trusted_device_ip(trusted_ips, ip)
         IN  add_trusted_device_ip(once, ip) = once

C23_Witness ==
    \E j \in Savers :
       /\ saver[j].pc = "done" /\ saver[j].cmd.op = "add_trusted_device_ip"
       /\ ~saver[j].wrote
       /\ Len(trusted_ips) = Cardinality(Ips)

\* C24: two trust commands for different addresses that ran together and
\* both returned Ok are both in the stored list.
C24_NoLostUpdate ==
    \A j, k \in Savers :
       (/\ j # k
        /\ saver[j].pc = "done" /\ saver[j].result = "ok"
        /\ saver[k].pc = "done" /\ saver[k].result = "ok"
        /\ saver[j].cmd.op = "add_trusted_device_ip"
        /\ saver[k].cmd \in TrustCmds
        /\ saver[k].cmd.ip # saver[j].cmd.ip)
       => /\ Occurrences(trusted_ips, saver[j].cmd.ip) = 1
          /\ Occurrences(trusted_ips, saver[k].cmd.ip) =
                IF saver[k].cmd.op = "add_trusted_device_ip" THEN 1 ELSE 0

\* C26: the bytes at the final path of each saved file are at every moment a
\* whole document, the one before a save or the one it writes.
C26_CrashSafe == \A f \in Files : kind[f] = "whole"

\* C25: the trust list changes only in a respond_transfer called with accept
\* and trust, which adds the address recorded for the transfer id, and in a
\* remove_trusted_device_ip; every other respond_transfer and every step of
\* the protocol leaves it as it is.
C25_TrustOnlyByUser ==
    [][LET answering == {c \in Conns : conn[c].prompt = "shown" /\ conn'[c].prompt # "shown"}
       IN  /\ \A c \in answering :
                LET ip == TRANSFER_IPS[conn[c].tid]
                IN  IF /\ TRANSFER_RESPONSES'[conn[c].tid] = Response(TRUE)
                       /\ conn'[c].prompt = "answered_trust"
                       /\ ip # NoIp
                    THEN trusted_ips' = IF Occurrences(trusted_ips, ip) > 0
                                        THEN trusted_ips
                                        ELSE Append(trusted_ips, ip)
                    ELSE trusted_ips' = trusted_ips
           /\ (answering = {} /\ trusted_ips' # trusted_ips)
                => /\ conn' = conn
                   /\ \E ip \in Ips : trusted_ips' = retain_other(trusted_ips, ip)]_vars

C25_Witness ==
    \E c \in Conns :
       /\ conn[c].prompt = "answered_trust"
       /\ conn[c].auto_enabled
       /\ TRANSFER_RESPONSES[conn[c].tid] = Response(TRUE)
       /\ Occurrences(trusted_ips, conn[c].ip) = 1

\* C27: while a file of a batch is being sent, the shared counter is the
\* number of bytes written so far for the files of that batch and is at most
\* the batch's overall_total, so that overall_total - overall_sent does not
\* underflow.
C27_OverallSent ==
    \A t \in SendTasks :
       sending[t].pc # "idle"
          => /\ OVERALL_SENT = sent_of[sending[t].batch].written
             /\ OVERALL_SENT <= sending[t].overall_total
             /\ ~sending[t].underflow

Marked(type) ==
    \E i \in 1..Len(history) :
       history[i].type = type /\ history[i].status \in {"cancelled", "failed"}

Completed(c) == conn[c].pc = "done" /\ conn[c].outcome = "complete"

\* C29 as stated: a completed receive of k full buffers took exactly k reads.
C29_AsStated ==
    \A c \in Conns, k \in 1..(MaxFileSize \div BufLen) :
       (Completed(c) /\ conn[c].size = k * BufLen) => conn[c].reads = k

\* C29: a completed receive of k full buffers took at least k reads and at
\* most one read per byte, the sizes of the reads sum to fileSize, and the
\* history holds a Completed record of that size.
C29_ChunkedReceive ==
    \A c \in Conns, k \in 1..(MaxFileSize \div BufLen) :
       (Completed(c) /\ conn[c].size = k * BufLen)
          => /\ conn[c].reads >= k /\ conn[c].reads <= conn[c].size
             /\ conn[c].received = conn[c].size
             /\ conn[c].written = conn[c].size
             /\ \E i \in 1..Len(history) :
                  history[i] = TransferRecord("received", "completed", conn[c].size)

C29_Witness ==
    \E c \in Conns :
       /\ Completed(c)
       /\ conn[c].size = 2 * BufLen
       /\ conn[c].reads = 3

\* C30: the text calculate_eta returns is "Nms" when eta_ms < 1000, "Ns" with
\* N < 60 when 1000 <= eta_ms < 60000, "Nm Ns" when 60000 <= eta_ms < 3600000
\* and "Nh Nm" from 3600000 on, and the placeholder with eta_ms 0 when no
\* byte was transferred or no time has elapsed.
C30_EtaBuckets ==
    eta.called =>
       LET r == eta.result
       IN  IF eta.bytes_transferred = 0 \/ eta.elapsed_ms = 0
           THEN r = Placeholder
           ELSE /\ r.eta_ms < 1000 => r.form = "{}ms" /\ r.n1 = r.eta_ms
                /\ (1000 <= r.eta_ms /\ r.eta_ms < 60000)
                      => r.form = "{}s" /\ r.n1 >= 1 /\ r.n1 < 60
                /\ (60000 <= r.eta_ms /\ r.eta_ms < 3600000)
                      => r.form = "{}m {}s" /\ r.n1 \in 1..59 /\ r.n2 \in 0..59
                /\ r.eta_ms >= 3600000
                      => r.form = "{}h {}m" /\ r.n1 >= 1 /\ r.n2 \in 0..59

\* should_offer_update on every release tag, storage and timestamp
InitOfferArgs ==
    /\ InitIdle
    /\ eta = NoEta
    /\ InitUpdater
    /\ InitRegistry
    /\ InitNet({LocalAddr})
    /\ auto_accept_trusted = FALSE
    /\ trusted_ips = <<>>
    /\ \E cur \in CurrentVersions, tag \in ReleaseTags, t \in OfferTimes, ts \in OfferStamps :
       \E ignored \in {NoTag, tag, Tag("v", <<1, 1, 0>>, "")},
          checked \in {NoTag, tag, Tag("v", <<1, 1, 0>>, "")} :
         offer = [NoOffer EXCEPT !.current_version = cur, !.tag = tag, !.now = t,
                                 !.storage = UpdateStorage(cur, checked, ignored, NoTag, ts)]

NextOffer == CheckOffer

SpecOffer == InitOfferArgs /\ [][NextOffer]_vars

\* the release is strictly newer than the current version, by the numbers of
\* the two and their pre-release suffixes
StrictlyNewer(o) ==
    /\ parse_version(o.current_version).ok
    /\ parse_version(o.tag).ok
    /\ Greater(parse_version(o.tag), parse_version(o.current_version))

\* the release is the one of the last check and that check is less than an
\* hour old
CheckedWithinHour(o) ==
    /\ o.storage.last_checked_version = o.tag
    /\ o.storage.last_check_timestamp <= o.now
    /\ o.now - o.storage.last_check_timestamp < OfferQuietSecs

\* C31: should_offer_update never offers a release that is not strictly newer
\* than the current version nor one whose tag is the stored
\* last_ignored_version, and it returns true for a strictly newer release
\* that is not ignored and was not checked within the last hour
C31_OfferContract ==
    offer.called =>
        /\ offer.result = "true" =>
              StrictlyNewer(offer) /\ offer.storage.last_ignored_version # offer.tag
        /\ ( /\ StrictlyNewer(offer)
             /\ offer.storage.last_ignored_version # offer.tag
             /\ ~CheckedWithinHour(offer) ) => offer.result = "true"

\* the operations of StorageManager called one after the other
InitStore ==
    /\ InitIdle
    /\ eta = NoEta
    /\ offer = NoOffer
    /\ InitRegistry
    /\ InitNet({LocalAddr})
    /\ auto_accept_trusted = FALSE
    /\ trusted_ips = <<>>
    /\ update_state = DefaultStorage
    /\ store_call = NoStoreCall
    /\ unix_now \in UnixTimes
    /\ download = NoDownload
    /\ UPDATER_STATE = Idle
    /\ updater = NoCalls

NextStore ==
    \/ \E op \in StoreOps, v \in StoreTags : StoreCall(op, v)
    \/ SetClock

SpecStore == InitStore /\ [][NextStore]_vars

\* the fields of the stored state other than f and the save timestamp
SameBut(a, b, f) ==
    \A g \in {"current_version", "last_checked_version", "last_ignored_version",
              "show_changelog_for"} \ {f} : a[g] = b[g]

\* C32: after a set_changelog_pending(v) that returned Ok the stored
\* show_changelog_for is v; mark_changelog_shown(w) clears it exactly when w is
\* the stored version and otherwise leaves the whole stored state as it was;
\* mark_version_ignored and reset_ignored_version change last_ignored_version
\* and the save timestamp only
C32_ChangelogMarker ==
    LET c == store_call
    IN  /\ c.op = "set_changelog_pending" /\ c.ok => update_state.show_changelog_for = c.version
        /\ c.op = "mark_changelog_shown" =>
             IF c.ok /\ c.before.show_changelog_for = c.version
             THEN update_state.show_changelog_for = NoTag
                  /\ SameBut(update_state, c.before, "show_changelog_for")
             ELSE update_state = c.before
        /\ c.op \in {"mark_version_ignored", "reset_ignored_version"} =>
             SameBut(update_state, c.before, "last_ignored_version")
        /\ c.op = "mark_version_ignored" /\ c.ok => update_state.last_ignored_version = c.version
        /\ c.op = "reset_ignored_version" /\ c.ok => update_state.last_ignored_version = NoTag

\* mark_changelog_shown was called with another version than the pending one
C32_Witness ==
    /\ store_call.op = "mark_changelog_shown"
    /\ store_call.ok
    /\ store_call.before.show_changelog_for \notin {NoTag, store_call.version}
    /\ update_state.show_changelog_for = store_call.before.show_changelog_for

\* download_file with every url scheme and every max_retries up to MaxRetries
InitDownload ==
    /\ InitIdle
    /\ eta = NoEta
    /\ offer = NoOffer
    /\ InitRegistry
    /\ InitNet({LocalAddr})
    /\ auto_accept_trusted = FALSE
    /\ trusted_ips = <<>>
    /\ update_state = DefaultStorage
    /\ store_call = NoStoreCall
    /\ unix_now = 0
    /\ \E u \in UrlSchemes, m \in 0..MaxRetries :
         download = [NoDownload EXCEPT !.url = u, !.max_retries = m]
    /\ UPDATER_STATE = Idle
    /\ updater = NoCalls

NextDownload == BeginDownload \/ TryDownload \/ WakeDownload

SpecDownload == InitDownload /\ [][NextDownload]_vars

\* every attempt returns (the client has a timeout) and every sleep ends
FairSpecDownload == SpecDownload /\ WF_vars(NextDownload)

\* what holds of a call of download_file at every moment
RetryBound ==
    LET d == download
    IN  /\ d.attempts <= d.max_retries + 1
        /\ d.url \notin {"http://", "https://"} => d.attempts = 0
        /\ d.result = "InvalidUrl" <=> d.pc = "done" /\ d.url \notin {"http://", "https://"}
        /\ d.result = "Ok" => d.attempts = d.retries + 1
        /\ d.pc = "done" /\ d.result \in TryErrors =>
             d.retries = d.max_retries /\ d.attempts = d.max_retries + 1 /\ d.result = d.last
        /\ d.pc # "done" => d.result = "none"

\* C33: download_file with an url that is not http:// or https:// returns
\* InvalidUrl without an attempt; otherwise it makes at most max_retries + 1
\* attempts, returns an error of try_download only after max_retries retries
\* have failed, and that error is the last one; and it always returns
C33_RetryBound == []RetryBound /\ <>(download.pc = "done")

\* the call gave up: every one of its max_retries + 1 attempts failed
C33_Witness ==
    /\ download.pc = "done"
    /\ download.max_retries = MaxRetries
    /\ download.attempts = MaxRetries + 1
    /\ download.result \in TryErrors

\* the file server with NConn connections from one sender, each carrying an
\* offer that is a batch of its own
NextConsent ==
    \/ \E c \in Conns : AcceptConnection(c, {"ip1"})
    \/ \E c \in Conns : ReadHeader(c, SoloOffers(c))
    \/ \E c \in Conns : ConnStep(c)
    \/ UserStep

SpecConsent == Init /\ [][NextConsent]_vars

\* C34: a first offer of a batch that is not auto-accepted (the sender is not
\* trusted or autoAcceptTrusted is off when the handler reads them) is answered
\* accept:true only after respond_transfer(accept = true) for its own transfer
\* id; an answer stored for another transfer id of another batch does not
\* accept it
C34_ConsentRequired ==
    \A c \in Conns :
        (conn[c].first /\ ~conn[c].auto /\ conn[c].ack = "accept") =>
            conn[c].prompt \in {"answered_accept", "answered_trust"}

\* one offer was accepted by the user while the prompt of another offer, of
\* another batch, is still unanswered and that offer is not accepted
C34_Witness ==
    \E c, d \in Conns :
        /\ conn[c].first /\ ~conn[c].auto /\ conn[c].ack = "accept"
        /\ conn[c].prompt = "answered_accept"
        /\ conn[d].bid # conn[c].bid /\ conn[d].tid # conn[c].tid
        /\ conn[d].prompt = "shown" /\ conn[d].pc = "wait_response"

\* C35: an auto-accepted first offer that has no folder when the 300 s are
\* over is answered {accept:false, error:"timeout_folder_selection"} (as far
\* as the socket takes the write) and its handler ends; nothing is stored for
\* the batch and no file is created
C35_FolderTimeout ==
    /\ [](\A c \in Conns :
            conn[c].outcome = "timeout_folder_selection" =>
                /\ conn[c].auto /\ conn[c].first /\ conn[c].pc = "done"
                /\ conn[c].ack \in {"timeout_folder_selection", "none"}
                /\ ~conn[c].stored /\ ~conn[c].file
                /\ ~BATCH_RESPONSES[conn[c].bid].present)
    /\ [][\A c \in Conns :
            (conn[c].pc = "auto_wait" /\ conn[c].polls > FolderTimeoutPolls
               /\ conn'[c].pc # "auto_wait")
            => conn'[c].outcome = "timeout_folder_selection"]_vars

\* the timeout was answered to the sender
C35_Witness ==
    /\ conn[1].outcome = "timeout_folder_selection"
    /\ conn[1].ack = "timeout_folder_selection"
    /\ conn[1].auto /\ conn[1].first

\* C36: when the folder dialog of an auto-accepted transfer is dismissed (the
\* callback delivers no path), the next step of the handler ends the wait and
\* answers {accept:false, error:"user_cancelled_folder"} (as far as the socket
\* takes the write): it neither waits on nor ends by the timeout
C36_DismissedDialog ==
    [][\A c \in Conns :
         (conn[c].pc = "auto_wait" /\ conn[c].dialog = "closed" /\ conn[c].cell = NoDir
            /\ conn'[c] # conn[c])
         => /\ conn'[c].pc = "done"
            /\ conn'[c].ack \in {"user_cancelled_folder", "none"}
            /\ conn'[c].outcome # "timeout_folder_selection"]_vars

\* the listener and the cleanup loop with a peer that sends a heartbeat every
\* HEARTBEAT_INTERVAL_SECS, of which no two in a row are lost
NextBeat ==
    \/ Heartbeat
    \/ Listen(OnAir \ Heartbeats)
    \/ Sweep
    \/ BeatTick
    \/ NetChange

SpecBeat == InitDisc /\ [][NextBeat]_vars

\* C37: with heartbeats every 2 s and the timeout of 5 s, a peer that keeps
\* advertising is in every snapshot from its first received heartbeat on,
\* also when single heartbeats are lost (received ones up to 4 s apart)
C37_NoFlapping == beat.arrived => Present(PeerAddr)

\* a heartbeat was lost and the entry of the peer is four seconds old
C37_Witness ==
    /\ beat.arrived /\ beat.lost
    /\ now - heard[PeerAddr].at = Secs(2 * HEARTBEAT_INTERVAL_SECS)
    /\ now > next_sweep - Secs(CleanupSleepSecs)
    /\ Present(PeerAddr)

\* ------------------------------------------------------------ history updates
\* save_recent_transfer and delete_transfer_by_id, NSavers of them running
\* together, each command returning before its task is called again
NextRecents ==
    \/ \E j \in Savers : Call(j, RecentCmds, FALSE)
    \/ \E j \in Savers : SaveStep(j)
    \/ \E j \in Savers : Returned(j)

SpecRecents == Init /\ [][NextRecents]_vars

\* the step in which command j puts its document at the final path
Commits(j) == saver[j].pc = "rename" /\ saver'[j].pc = "done"

\* C38: the updates of the history are serialized. Each save_recent_transfer and
\* each delete_transfer_by_id succeeds and applies its own change to the history
\* as it is stored at that moment, and the history changes in no other step; so
\* a record that was appended stays until it is deleted by its id or pushed out
\* by the cap, however the commands overlap.
C38_Serialized ==
    [][/\ \A j \in Savers :
            Commits(j) =>
               /\ saver'[j].result = "ok"
               /\ history' = Updated(saver[j].cmd, history)
       /\ history' # history => \E j \in Savers : Commits(j)]_vars

\* two appends that overlapped have returned and both records are stored,
\* or an append and the delete of another record have
C38_Witness ==
    \E j, k \in Savers :
       /\ j # k
       /\ saver[j].pc = "done" /\ saver[j].cmd = SaveRecent(1)
       /\ saver[k].pc = "done" /\ saver[k].cmd \in {SaveRecent(2), DeleteRecent(2)}
       /\ \E i \in 1..Len(history) : history[i].file_size = 1
       /\ saver[k].cmd = SaveRecent(2) => \E i \in 1..Len(history) : history[i].file_size = 2

\* ------------------------------------------------------------ updater commands
\* the updater's commands invoked in any order, NUpdaterCalls of them at a
\* time, while the clock runs on
NextUpdater ==
    \/ \E t \in UpdaterTasks : check_for_updates(t)
    \/ \E t \in UpdaterTasks : perform_update_check(t)
    \/ \E t \in UpdaterTasks : check_final(t)
    \/ \E t \in UpdaterTasks : download_and_install_update(t)
    \/ \E t \in UpdaterTasks : Progress(t)
    \/ \E p \in updater.spawned : ProgressTask(p)
    \/ \E t \in UpdaterTasks : DownloadReturns(t)
    \/ \E t \in UpdaterTasks : SetInstalling(t)
    \/ \E t \in UpdaterTasks : install_update(t)
    \/ \E t \in UpdaterTasks : download_final(t)
    \/ \E t \in UpdaterTasks :
          StoreThenIdle(t, "ignore_update_version", LatestTag)
    \/ \E t \in UpdaterTasks : StoreThenIdle(t, "reset_ignored_version", NoTag)
    \/ \E t \in UpdaterTasks : cancel_download(t)
    \/ \E t \in UpdaterTasks : set_idle(t)
    \/ \E t \in UpdaterTasks : UpdaterReturns(t)
    \/ UpdaterClock

SpecUpdater == Init /\ [][NextUpdater]_vars

\* the invocations inside a check
Checks == {t \in UpdaterTasks : updater.call[t].pc \in {"perform_update_check", "check_final"}}

\* C39: download_and_install_update starts a download only from the state
\* UpdateAvailable and otherwise returns an error with the state unchanged, so
\* no two invocations are in a download at once; check_for_updates invoked in
\* the state Checking returns an error with the state unchanged, so no two
\* invocations are in a check at once.
C39_Gating ==
    /\ [][\A t \in UpdaterTasks :
            /\ (updater.call[t].pc = "idle"
                   /\ updater'.call[t].cmd = "download_and_install_update") =>
                  IF UPDATER_STATE.state = "UpdateAvailable"
                  THEN updater'.call[t].pc = "download_file"
                  ELSE /\ updater'.call[t].result = "Err"
                       /\ UPDATER_STATE' = UPDATER_STATE
            /\ (updater.call[t].pc = "idle" /\ updater'.call[t].cmd = "check_for_updates"
                   /\ UPDATER_STATE = Checking) =>
                  /\ updater'.call[t].result = "Err"
                  /\ UPDATER_STATE' = UPDATER_STATE]_vars
    /\ [](Cardinality(Running) <= 1)
    /\ [](Cardinality(Checks) <= 1)

\* C40: once download_and_install_update has set its final state, or
\* cancel_download or ignore_update_version has set Idle during the download,
\* no step of that download changes UPDATER_STATE again: not a step of the
\* invocation itself, and not a task one of its progress callbacks spawned.
C40_FinalStateStable ==
    [][/\ \A t \in UpdaterTasks :
            (updater.call[t].settled /\ updater'.call[t] # updater.call[t])
               => UPDATER_STATE' = UPDATER_STATE
       /\ \A p \in updater.spawned :
            (p.settled /\ p \notin updater'.spawned) => UPDATER_STATE' = UPDATER_STATE]_vars

====
